---- MODULE Spec2Model ----
(***************************************************************************)
(* Model of the Monte Carlo core of risk_mc: the distribution sampler, the *)
(* annual-loss simulator, the portfolio aggregator, the risk metrics and   *)
(* the register quantifier.                                                *)
(*                                                                         *)
(* Numbers.  Real quantities are exact: integers, or rationals held as     *)
(* records [n, d] with d > 0.  ResidualFactor, ControlEffectiveness and    *)
(* the NegBin p are held in units of 1/FracDen; a loss is held in units of *)
(* 1/FracDen^2, so that severity * rf * (1 - ce) stays an integer.         *)
(* float64 rounding is not modelled.                                       *)
(***************************************************************************)
EXTENDS Integers, Sequences, FiniteSets, TLC

(* ------------------------------ bounds -------------------------------- *)

\* largest n_sims a caller passes
MaxSims == 2

\* largest number of rows of a register
MaxRisks == 2

\* largest event count one trial can draw
MaxEvents == 2

\* largest lognormal severity one event can draw
MaxSev == 2

\* number of states of the bit generator (PCG64, narrowed)
RngMod == 4

\* number of integer seeds (the range 2**31 of the sub-seeds, narrowed)
SeedSpace == 3

\* longest loss array the metrics are called on directly
MaxLen == 4

\* largest n_points of a loss exceedance curve
MaxPoints == 3

\* largest top_n of a tornado table
MaxTop == 2

\* largest loss value in such an array
MaxLoss == 2

(* ----------------------- values of the program ------------------------ *)

\* Python None, for an absent seed or parameter
None == -999

\* denominator of the fractions ResidualFactor, ControlEffectiveness, p
FracDen == 2

(* ----------------------------- rationals ------------------------------ *)

Rat(i) == [n |-> i, d |-> 1]

RatNorm(a) == IF a.d < 0 THEN [n |-> -a.n, d |-> -a.d] ELSE a

RatAdd(a, b) == [n |-> a.n * b.d + b.n * a.d, d |-> a.d * b.d]

RatSub(a, b) == [n |-> a.n * b.d - b.n * a.d, d |-> a.d * b.d]

RatMul(a, b) == [n |-> a.n * b.n, d |-> a.d * b.d]

\* a / b for b # 0
RatDiv(a, b) == RatNorm([n |-> a.n * b.d, d |-> a.d * b.n])

RatEq(a, b) == a.n * b.d = b.n * a.d

RatLeq(a, b) == a.n * b.d <= b.n * a.d

RatLt(a, b) == a.n * b.d < b.n * a.d

RatMax(a, b) == IF RatLt(a, b) THEN b ELSE a

(* --------------------------- random source ---------------------------- *)

\* multiplier and increment of the generator's state transition
RngMul == 5

RngInc == 3

\* one step of the bit generator
Advance(g) == (RngMul * g + RngInc) % RngMod

RECURSIVE AdvanceN(_, _)
AdvanceN(g, k) == IF k = 0 THEN g ELSE AdvanceN(Advance(g), k - 1)

\* the raw value the generator hands out in state g
Raw(g) == g

\* the k raw values drawn from state g on
RawSeq(k, g) == [i \in 1..k |-> Raw(AdvanceN(g, i - 1))]

\* generator states an unseeded generator can start in (OS entropy)
Entropy == 0..(RngMod - 1)

\* np.random.default_rng(seed): a fresh generator; its state is a function
\* of the seed when there is one, else taken from the entropy e
default_rng_unseeded(seed, e) == e

default_rng(seed, e) == IF seed = None THEN e ELSE (3 * seed + 1) % RngMod

(* ------------------------- sampler results ---------------------------- *)

\* a sampler that raised: no values, the generator untouched
Raised(msg, g) == [err |-> msg, vals |-> <<>>, g |-> g, drawn |-> 0]

\* a sampler that returned k values, leaving the generator in state g
Drawn(vals, g, k) == [err |-> "", vals |-> vals, g |-> g, drawn |-> k]

(* ----------------------- distribution sampler ------------------------- *)

\* A model name is held as the sequence of its characters.
UpperCase == <<"A", "B", "C", "D", "E", "F", "G", "H", "I", "J", "K", "L", "M",
               "N", "O", "P", "Q", "R", "S", "T", "U", "V", "W", "X", "Y", "Z">>

LowerCase == <<"a", "b", "c", "d", "e", "f", "g", "h", "i", "j", "k", "l", "m",
               "n", "o", "p", "q", "r", "s", "t", "u", "v", "w", "x", "y", "z">>

\* str.lower() on one character: an upper-case letter becomes its lower-case
\* letter, anything else stays
LowerOf ==
    [c \in { UpperCase[i] : i \in 1..Len(UpperCase) } |->
        LowerCase[CHOOSE i \in 1..Len(UpperCase) : UpperCase[i] = c]]

LowerChar(c) == IF c \in DOMAIN LowerOf THEN LowerOf[c] ELSE c

Lower_unchanged(model) == model

\* model.lower()
Lower(model) == [i \in 1..Len(model) |-> LowerChar(model[i])]

\* the string literals the dispatch compares with
poisson == <<"p", "o", "i", "s", "s", "o", "n">>

negbin == <<"n", "e", "g", "b", "i", "n">>

lognormal == <<"l", "o", "g", "n", "o", "r", "m", "a", "l">>

normal == <<"n", "o", "r", "m", "a", "l">>

pert == <<"p", "e", "r", "t">>

\* rng.poisson(lam, size): lam = 0 gives 0 without touching the generator
PoissonCounts(lam, n_sims, g) ==
    IF lam = 0
    THEN Drawn([i \in 1..n_sims |-> 0], g, n_sims)
    ELSE Drawn([i \in 1..n_sims |-> RawSeq(n_sims, g)[i] % (MaxEvents + 1)],
               AdvanceN(g, n_sims), n_sims)

sample_frequency_poisson_strict(lam, n_sims, g) ==
    IF lam <= 0
    THEN Raised("ValueError: Poisson lambda must be >= 0", g)
    ELSE PoissonCounts(lam, n_sims, g)

sample_frequency_poisson(lam, n_sims, g) ==
    IF lam < 0
    THEN Raised("ValueError: Poisson lambda must be >= 0", g)
    ELSE PoissonCounts(lam, n_sims, g)

\* rng.negative_binomial(r, p, size): with p = 1 every count is 0
sample_frequency_negbin(r, p, n_sims, g) ==
    IF r <= 0
    THEN Raised("ValueError: NegBin r must be > 0", g)
    ELSE IF ~(0 < p /\ p <= FracDen)
    THEN Raised("ValueError: NegBin p must be in (0, 1]", g)
    ELSE IF p = FracDen
    THEN Drawn([i \in 1..n_sims |-> 0], AdvanceN(g, n_sims), n_sims)
    ELSE Drawn([i \in 1..n_sims |-> RawSeq(n_sims, g)[i] % (MaxEvents + 1)],
               AdvanceN(g, n_sims), n_sims)

\* rng.lognormal: exp(.) is strictly positive; the draw picks the size
sample_severity_lognormal(mu, sigma, n_events, g) ==
    IF sigma <= 0
    THEN Raised("ValueError: Lognormal sigma must be > 0", g)
    ELSE IF n_events = 0
    THEN Drawn(<<>>, g, 0)
    ELSE Drawn([i \in 1..n_events |-> 1 + (RawSeq(n_events, g)[i] % MaxSev)],
               AdvanceN(g, n_events), n_events)

\* the standard normal deviate of a raw value: -1, 0 or 1
Deviate(raw) == (raw % 3) - 1

Maximum(a, b) == IF a >= b THEN a ELSE b

\* rng.normal(mu, sigma) clipped at 0 by np.maximum
sample_severity_normal(mu, sigma, n_events, g) ==
    IF sigma <= 0
    THEN Raised("ValueError: Normal sigma must be > 0", g)
    ELSE IF n_events = 0
    THEN Drawn(<<>>, g, 0)
    ELSE Drawn([i \in 1..n_events |->
                   Maximum(mu + sigma * Deviate(RawSeq(n_events, g)[i]), 0)],
               AdvanceN(g, n_events), n_events)

\* the shape parameters handed to rng.beta, or the error of computing them:
\* alpha divides by (mode - mu) * (max_val - min_val), which is 0 when the mode
\* is the midpoint (Python floats raise; numpy floats give NaN parameters)
PertShape(min_val, mode, max_val) ==
    LET lam == 4
        mu == [n |-> min_val + lam * mode + max_val, d |-> lam + 2]
        den == RatMul(RatSub(Rat(mode), mu), Rat(max_val - min_val))
        alpha == IF RatEq(mu, Rat(min_val))
                 THEN Rat(1)
                 ELSE RatDiv(RatMul(RatSub(mu, Rat(min_val)),
                                    Rat(2 * mode - min_val - max_val)), den)
        beta == IF RatEq(mu, Rat(max_val))
                THEN Rat(1)
                ELSE RatDiv(RatMul(alpha, RatSub(Rat(max_val), mu)),
                            RatSub(mu, Rat(min_val)))
        tenth == [n |-> 1, d |-> 10]
    IN  IF ~RatEq(mu, Rat(min_val)) /\ den.n = 0
        THEN [err |-> "ZeroDivisionError: float division by zero"]
        ELSE [err |-> "", alpha |-> RatMax(alpha, tenth),
              beta |-> RatMax(beta, tenth)]

\* rng.beta(alpha, beta): any point of [0, 1]; the model draws it on the
\* grid of width 1/(max - min)
BetaSample(raw, width) == [n |-> raw % (width + 1), d |-> width]

\* min_val + beta_sample * (max_val - min_val)
PertScale(min_val, max_val, b) ==
    (min_val * b.d + b.n * (max_val - min_val)) \div b.d

sample_severity_pert(min_val, mode, max_val, n_events, g) ==
    IF ~(min_val <= mode /\ mode <= max_val)
    THEN Raised("ValueError: PERT requires min <= mode <= max", g)
    ELSE IF min_val = max_val
    THEN Drawn([i \in 1..n_events |-> min_val], g, 0)
    ELSE IF n_events = 0
    THEN Drawn(<<>>, g, 0)
    ELSE LET shape == PertShape(min_val, mode, max_val)
         IN  IF shape.err # ""
             THEN Raised(shape.err, g)
             ELSE [err |-> "",
                   vals |-> [i \in 1..n_events |->
                       PertScale(min_val, max_val,
                           BetaSample(RawSeq(n_events, g)[i], max_val - min_val))],
                   g |-> AdvanceN(g, n_events),
                   drawn |-> n_events,
                   shape |-> shape]

sample_frequency(model, param1, param2, n_sims, g) ==
    LET model_lower == Lower(model)
    IN  IF model_lower = poisson
        THEN sample_frequency_poisson(param1, n_sims, g)
        ELSE IF model_lower = negbin
        THEN IF param2 = None
             THEN Raised("ValueError: NegBin requires param2 (p)", g)
             ELSE sample_frequency_negbin(param1, param2, n_sims, g)
        ELSE Raised("ValueError: Unknown frequency model", g)

sample_severity(model, param1, param2, param3, n_events, g) ==
    LET model_lower == Lower(model)
    IN  IF model_lower = lognormal
        THEN sample_severity_lognormal(param1, param2, n_events, g)
        ELSE IF model_lower = normal
        THEN sample_severity_normal(param1, param2, n_events, g)
        ELSE IF model_lower = pert
        THEN IF param3 = None
             THEN Raised("ValueError: PERT requires param3 (max)", g)
             ELSE sample_severity_pert(param1, param2, param3, n_events, g)
        ELSE Raised("ValueError: Unknown severity model", g)

(* ----------------------- annual-loss simulator ------------------------ *)

RECURSIVE SumSeq(_)
SumSeq(s) == IF s = <<>> THEN 0 ELSE Head(s) + SumSeq(Tail(s))

\* the outcome of one simulate_annual_loss call: the error raised or the
\* array returned, with the numbers of frequency and severity values drawn
Outcome(err, losses, freq_drawn, sev_drawn) ==
    [err |-> err, losses |-> losses, freq_drawn |-> freq_drawn,
     sev_drawn |-> sev_drawn]

\* severities * residual_factor * (1 - control_eff), summed
EffectiveLoss(severities, residual_factor, control_eff) ==
    SumSeq([k \in 1..Len(severities) |->
               severities[k] * residual_factor * (FracDen - control_eff)])

\* the loop over the trials, from trial i on
RECURSIVE TrialLoop(_, _, _, _, _, _, _)
TrialLoop(risk_row, event_counts, i, g, annual_losses, freq_drawn, sev_drawn) ==
    IF i > Len(event_counts)
    THEN Outcome("", annual_losses, freq_drawn, sev_drawn)
    ELSE IF event_counts[i] > 0
    THEN LET sev == sample_severity(risk_row.SeverityModel, risk_row.SevParam1,
                        risk_row.SevParam2, risk_row.SevParam3,
                        event_counts[i], g)
         IN  IF sev.err # ""
             THEN Outcome(sev.err, <<>>, freq_drawn, sev_drawn)
             ELSE TrialLoop(risk_row, event_counts, i + 1, sev.g,
                      [annual_losses EXCEPT ![i] =
                          EffectiveLoss(sev.vals, risk_row.ResidualFactor,
                                        risk_row.ControlEffectiveness)],
                      freq_drawn, sev_drawn + sev.drawn)
    ELSE TrialLoop(risk_row, event_counts, i + 1, g, annual_losses,
                   freq_drawn, sev_drawn)

FractionAtMostOne(x) == x <= FracDen

\* 0 <= x <= 1 on a fraction held in units of 1/FracDen
FractionInRange(x) == 0 <= x /\ x <= FracDen

simulate_annual_loss(risk_row, n_sims, g) ==
    IF ~FractionInRange(risk_row.ResidualFactor)
    THEN Outcome("ValueError: ResidualFactor must be in [0, 1]", <<>>, 0, 0)
    ELSE IF ~FractionInRange(risk_row.ControlEffectiveness)
    THEN Outcome("ValueError: ControlEffectiveness must be in [0, 1]", <<>>, 0, 0)
    ELSE LET freq == sample_frequency(risk_row.FrequencyModel, risk_row.FreqParam1,
                         risk_row.FreqParam2, n_sims, g)
         IN  IF freq.err # ""
             THEN Outcome(freq.err, <<>>, 0, 0)
             ELSE TrialLoop(risk_row, freq.vals, 1, freq.g,
                            [i \in 1..n_sims |-> 0], freq.drawn, 0)

(* ------------------------------ metrics ------------------------------- *)

RECURSIVE Insert(_, _)
Insert(x, s) ==
    IF s = <<>> THEN <<x>>
    ELSE IF x <= Head(s) THEN <<x>> \o s
    ELSE <<Head(s)>> \o Insert(x, Tail(s))

RECURSIVE Sort(_)
Sort(s) == IF s = <<>> THEN <<>> ELSE Insert(Head(s), Sort(Tail(s)))

\* np.percentile(a, q), q in percent, linear interpolation, a not empty
Percentile(a, q) ==
    LET sorted == Sort(a)
        pos == q * (Len(a) - 1)
        j == pos \div 100
        r == pos % 100
    IN  IF r = 0
        THEN Rat(sorted[j + 1])
        ELSE [n |-> 100 * sorted[j + 1] + r * (sorted[j + 2] - sorted[j + 1]),
              d |-> 100]

TailAtOrBelow(a, threshold) == SelectSeq(a, LAMBDA x : RatLeq(Rat(x), threshold))

\* losses[losses >= threshold]
TailAtOrAbove(a, threshold) == SelectSeq(a, LAMBDA x : RatLeq(threshold, Rat(x)))

\* np.mean of a non-empty array
Mean(a) == [n |-> SumSeq(a), d |-> Len(a)]

\* a value returned, or the error raised
Value(v) == [err |-> "", v |-> v]

Error(msg) == [err |-> msg]

var_mirrored(a, confidence) ==
    IF ~(0 < confidence /\ confidence < 100)
    THEN Error("ValueError: Confidence must be in (0, 1)")
    ELSE IF a = <<>>
    THEN Error("IndexError: index -1 is out of bounds")
    ELSE Value(Percentile(a, 100 - confidence))

\* var(losses, confidence), the confidence in percent
var(a, confidence) ==
    IF ~(0 < confidence /\ confidence < 100)
    THEN Error("ValueError: Confidence must be in (0, 1)")
    ELSE IF a = <<>>
    THEN Error("IndexError: index -1 is out of bounds")
    ELSE Value(Percentile(a, confidence))

tvar(a, confidence) ==
    IF ~(0 < confidence /\ confidence < 100)
    THEN Error("ValueError: Confidence must be in (0, 1)")
    ELSE LET var_threshold == var(a, confidence)
         IN  IF var_threshold.err # ""
             THEN var_threshold
             ELSE LET tail_losses == TailAtOrAbove(a, var_threshold.v)
                  IN  IF Len(tail_losses) = 0
                      THEN var_threshold
                      ELSE Value(Mean(tail_losses))

\* summary(losses): the percentile and tail statistics (a not empty)
summary(a) ==
    IF a = <<>>
    THEN Error("ValueError: zero-size array to reduction operation")
    ELSE Value([mean |-> Mean(a),
                median |-> Percentile(a, 50),
                min |-> Sort(a)[1],
                max |-> Sort(a)[Len(a)],
                p50 |-> Percentile(a, 50),
                p90 |-> Percentile(a, 90),
                p95 |-> Percentile(a, 95),
                p99 |-> Percentile(a, 99),
                var_95 |-> var(a, 95).v,
                var_99 |-> var(a, 99).v,
                tvar_95 |-> tvar(a, 95).v,
                tvar_99 |-> tvar(a, 99).v])

\* np.mean(tail) if len(tail) > 0 else the percentile
InlineTVaR(a, q) ==
    LET v == Percentile(a, q)
        tail == TailAtOrAbove(a, v)
    IN  IF Len(tail) > 0 THEN Mean(tail) ELSE v

\* the metrics quantify_register computes from one loss array (a not empty)
SimMetrics(a) ==
    [SimMean |-> Mean(a),
     SimMedian |-> Percentile(a, 50),
     SimP90 |-> Percentile(a, 90),
     SimP95 |-> Percentile(a, 95),
     SimP99 |-> Percentile(a, 99),
     SimVaR95 |-> Percentile(a, 95),
     SimVaR99 |-> Percentile(a, 99),
     SimTVaR95 |-> InlineTVaR(a, 95),
     SimTVaR99 |-> InlineTVaR(a, 99)]

(* ---------------------- marginal tail contribution -------------------- *)

\* the key get_losses_by_risk stores the portfolio total under
portfolio == <<"p", "o", "r", "t", "f", "o", "l", "i", "o">>

TailIndicator_above(portfolio_losses, portfolio_var) ==
    [i \in 1..Len(portfolio_losses) |->
        IF RatLt(portfolio_var, Rat(portfolio_losses[i])) THEN 1 ELSE 0]

\* (portfolio_losses >= portfolio_var).astype(float)
TailIndicator(portfolio_losses, portfolio_var) ==
    [i \in 1..Len(portfolio_losses) |->
        IF RatLeq(portfolio_var, Rat(portfolio_losses[i])) THEN 1 ELSE 0]

\* np.std(a) > 0: a is not constant
StdPositive(a) == \E i, j \in 1..Len(a) : a[i] # a[j]

\* risk_losses[tail_indicator == 1]
RECURSIVE WhereTail(_, _)
WhereTail(risk_losses, tail_indicator) ==
    IF risk_losses = <<>> THEN <<>>
    ELSE IF Head(tail_indicator) = 1
         THEN <<Head(risk_losses)>> \o WhereTail(Tail(risk_losses), Tail(tail_indicator))
         ELSE WhereTail(Tail(risk_losses), Tail(tail_indicator))

Contribution_mean_of_all(risk_losses, tail_indicator) ==
    IF StdPositive(tail_indicator) /\ StdPositive(risk_losses)
    THEN Mean(risk_losses)
    ELSE Rat(0)

\* the entry of one risk: the mean of its losses over the tail trials (NaN,
\* the mean of no trial, becomes 0) when the tail indicator and the risk's
\* losses both vary, 0 otherwise
Contribution(risk_losses, tail_indicator) ==
    IF StdPositive(tail_indicator) /\ StdPositive(risk_losses)
    THEN LET in_tail == WhereTail(risk_losses, tail_indicator)
         IN  IF in_tail = <<>> THEN Rat(0) ELSE Mean(in_tail)
    ELSE Rat(0)

\* the dict by_risk_losses is held as its items in insertion order
marginal_contribution_to_var(by_risk_losses, portfolio_losses, q) ==
    LET portfolio_var == var(portfolio_losses, q)
    IN  IF portfolio_var.err # ""
        THEN portfolio_var
        ELSE LET tail_indicator == TailIndicator(portfolio_losses, portfolio_var.v)
                 risks == SelectSeq(by_risk_losses, LAMBDA item : item.key # portfolio)
             IN  Value([k \in 1..Len(risks) |->
                           [key |-> risks[k].key,
                            v |-> Contribution(risks[k].losses, tail_indicator)]])

(* ------------------------- loss exceedance curve ----------------------- *)

\* float("inf")
Infinity == [n |-> 1, d |-> 0]

NBelow(a, threshold) ==
    Len(SelectSeq(a, LAMBDA x : RatLeq(Rat(x), threshold)))

\* np.sum(losses >= threshold)
NExceeding(a, threshold) ==
    Len(SelectSeq(a, LAMBDA x : RatLeq(threshold, Rat(x))))

\* exceedance_prob(losses, loss_threshold), losses not empty
exceedance_prob(a, loss_threshold) ==
    Value([n |-> NExceeding(a, Rat(loss_threshold)), d |-> Len(a)])

return_period_of_all(a, loss_threshold) == Value(Rat(1))

\* return_period(losses, loss_threshold), losses not empty
return_period(a, loss_threshold) ==
    LET n_exceeding == NExceeding(a, Rat(loss_threshold))
        prob == [n |-> n_exceeding, d |-> Len(a)]
    IN  IF prob.n = 0
        THEN Value(Infinity)
        ELSE Value(RatDiv(Rat(1), prob))

ExceedancePercentile_same(p) == p

\* (1 - p) * 100, p held in percent
ExceedancePercentile(p) == 100 - p

\* the rows of the probs branch, or the error of the first bad probability;
\* on an empty array the percentile of the first probability raises
ProbRows(sorted_losses, probs) ==
    IF /\ sorted_losses = <<>>
       /\ Len(probs) > 0
       /\ 0 <= probs[1] /\ probs[1] <= 100
    THEN Error("IndexError: index -1 is out of bounds")
    ELSE IF \E i \in 1..Len(probs) : ~(0 <= probs[i] /\ probs[i] <= 100)
    THEN Error("ValueError: Probability must be in [0, 1]")
    ELSE Value([i \in 1..Len(probs) |->
                   [prob |-> [n |-> probs[i], d |-> 100],
                    loss |-> Percentile(sorted_losses,
                                        ExceedancePercentile(probs[i]))]])

Linspace_open(start, stop, num) ==
    [i \in 1..num |-> [n |-> start * num + (i - 1) * (stop - start), d |-> num]]

\* np.linspace(start, stop, num), num >= 1
Linspace(start, stop, num) ==
    [i \in 1..num |->
        IF num = 1 THEN Rat(start)
        ELSE [n |-> start * (num - 1) + (i - 1) * (stop - start), d |-> num - 1]]

\* the rows of the evenly spaced branch
ThresholdRows(sorted_losses, thresholds) ==
    [i \in 1..Len(thresholds) |->
        [prob |-> [n |-> NExceeding(sorted_losses, thresholds[i]),
                   d |-> Len(sorted_losses)],
         loss |-> thresholds[i]]]

\* every order of the elements of a finite set
RECURSIVE Orders(_)
Orders(S) ==
    IF S = {} THEN { <<>> }
    ELSE UNION { { <<x>> \o q : q \in Orders(S \ {x}) } : x \in S }

ProbAscending(rows) ==
    \A i \in 1..(Len(rows) - 1) : RatLeq(rows[i].prob, rows[i + 1].prob)

\* the column prob never increases down the rows
ProbDescending(rows) ==
    \A i \in 1..(Len(rows) - 1) : RatLeq(rows[i + 1].prob, rows[i].prob)

\* df.sort_values("prob", ascending=False).reset_index(drop=True): the sort
\* is numpy's quicksort, which is not stable, so rows of equal prob come out
\* in any order
sort_values(rows) ==
    { out \in { [i \in 1..Len(rows) |-> rows[q[i]]] : q \in Orders(1..Len(rows)) } :
          ProbDescending(out) }

\* probs=None
NoProbs == <<None>>

AllEqual_never(min_loss, max_loss) == FALSE

\* min_loss == max_loss
AllEqual(min_loss, max_loss) == min_loss = max_loss

\* lec_points(losses, probs, n_points), losses not empty: the outcomes it can
\* have, probabilities held in percent
lec_points(a, probs, n_points) ==
    LET sorted_losses == Sort(a)
        n == Len(sorted_losses)
    IN  IF probs # NoProbs
        THEN LET results == ProbRows(sorted_losses, probs)
             IN  IF results.err # ""
                 THEN { results }
                 ELSE IF Len(probs) = 0
                 THEN { Error("KeyError: 'prob'") }
                 ELSE { Value(df) : df \in sort_values(results.v) }
        ELSE IF n = 0
        THEN { Error("IndexError: index 0 is out of bounds") }
        ELSE LET min_loss == sorted_losses[1]
                 max_loss == sorted_losses[n]
             IN  IF AllEqual(min_loss, max_loss)
                 THEN { Value(<< [prob |-> Rat(1), loss |-> Rat(min_loss)],
                                 [prob |-> Rat(0), loss |-> Rat(min_loss)] >>) }
                 ELSE IF n_points < 0
                 THEN { Error("ValueError: Number of samples must be non-negative") }
                 ELSE IF n_points = 0
                 THEN { Error("KeyError: 'prob'") }
                 ELSE { Value(df) : df \in sort_values(
                            ThresholdRows(sorted_losses,
                                Linspace(min_loss, max_loss, n_points))) }

(* ------------------------------ inputs -------------------------------- *)

\* the model names as registers spell them
Poisson == [poisson EXCEPT ![1] = "P"]

NegBin == [negbin EXCEPT ![1] = "N", ![4] = "B"]

Lognormal == [lognormal EXCEPT ![1] = "L"]

Normal == [normal EXCEPT ![1] = "N"]

PERT == <<"P", "E", "R", "T">>

Row(id, freq, sev, frac) ==
    [RiskID |-> id,
     FrequencyModel |-> freq[1], FreqParam1 |-> freq[2], FreqParam2 |-> freq[3],
     SeverityModel |-> sev[1], SevParam1 |-> sev[2], SevParam2 |-> sev[3],
     SevParam3 |-> sev[4],
     ResidualFactor |-> frac[1], ControlEffectiveness |-> frac[2]]

\* frequency model, FreqParam1, FreqParam2 (p in units of 1/FracDen)
FreqSpecs ==
    { <<Poisson, 1, None>>, <<Poisson, 0, None>>, <<poisson, -1, None>>,
      <<NegBin, 1, 1>>, <<NegBin, 1, FracDen>>, <<NegBin, 0, 1>>,
      <<negbin, 1, 0>>, <<NegBin, 1, FracDen + 1>> }

\* severity model, SevParam1, SevParam2, SevParam3
SevSpecs ==
    { <<Lognormal, 1, 1, None>>, <<Lognormal, 1, 0, None>>,
      <<Normal, 1, 2, None>>, <<normal, 1, -1, None>>,
      <<PERT, 0, 1, 4>>, <<PERT, 0, 1, 2>>, <<pert, 2, 2, 2>>,
      <<PERT, -2, -1, 2>>, <<PERT, 2, 1, 3>> }

\* ResidualFactor, ControlEffectiveness in units of 1/FracDen, some outside [0, 1]
FracVals == (-1)..(FracDen + 1)

FracPairs ==
    { f \in FracVals \X FracVals : f[1] = FracDen \/ f[2] = 0 \/ f = <<1, 1>> }

\* RiskIDs are strings, held character by character
R1 == <<"R", "1">>

R2 == <<"R", "2">>

\* the prefix simulate_portfolio gives the column of a risk
ByRiskPrefix == <<"b", "y", "_", "r", "i", "s", "k", ":">>

\* a RiskID that carries the prefix itself
by_risk_R1 == ByRiskPrefix \o R1

RiskIDs == {R1, R2}

\* the risks simulate_annual_loss is called on
Risks == { Row(R1, f, s, c) : f \in FreqSpecs, s \in SevSpecs, c \in FracPairs }

\* the rows the registers are made of
RegisterRows ==
    { Row(id, f[1], f[2], f[3]) : id \in RiskIDs,
      f \in { << <<Poisson, 1, None>>, <<Lognormal, 1, 1, None>>, <<FracDen, 0>> >>,
              << <<Poisson, 0, None>>, <<Normal, 1, 2, None>>, <<1, 0>> >> } }
    \cup
    { Row(R2, <<NegBin, 1, 1>>, <<PERT, -2, -1, 2>>, <<FracDen, 1>>),
      Row(by_risk_R1, <<Poisson, 1, None>>, <<Lognormal, 1, 0, None>>,
          <<FracDen, 0>>) }

RECURSIVE SeqsUpTo(_, _)
SeqsUpTo(S, k) ==
    IF k = 0 THEN { <<>> }
    ELSE LET shorter == SeqsUpTo(S, k - 1)
         IN  shorter \cup { Append(q, x) : q \in shorter, x \in S }

Registers == SeqsUpTo(RegisterRows, MaxRisks)

Seeds == {None} \cup (0..(SeedSpace - 1))

TrialCounts == 0..MaxSims

(* ------------------------------- state -------------------------------- *)

VARIABLES
    pc,               \* "idle", or "loop" inside simulate_portfolio's loop
    call,             \* the entry point called last and its arguments
    ret,              \* what that call returned or raised
    risk_seeds,       \* simulate_portfolio: the sub-seed of each register row
    idx,              \* simulate_portfolio: rows simulated so far
    results,          \* simulate_portfolio: the dict of per-risk arrays
    portfolio_total,  \* simulate_portfolio: the running total
    simulated,        \* simulate_portfolio: (row, sub-seed) of each simulation run
    watch,            \* a seeded call whose first result is kept
    watch_ret,        \* that first result
    losses,           \* the loss array the metrics are called on
    prev              \* the var call before the last one

vars == <<pc, call, ret, risk_seeds, idx, results, portfolio_total, simulated,
          watch, watch_ret, losses, prev>>

NoCall == [op |-> "none"]

NoReturn == [kind |-> "none"]

\* keep the first result of the watched call, and count its completions
Watch(c, r) ==
    watch_ret' = IF c # watch THEN watch_ret
                 ELSE IF watch_ret = NoReturn THEN [kind |-> "kept", r |-> r, n |-> 1]
                 ELSE [watch_ret EXCEPT !.n = 2]

(* ----------------------- simulate_annual_loss ------------------------- *)

\* a caller runs simulate_annual_loss(risk_row, n_sims, seed)
CallSimulateAnnualLoss ==
    /\ pc = "idle"
    /\ call = NoCall
    /\ \E risk_row \in Risks, n_sims \in TrialCounts, seed \in Seeds, e \in Entropy :
          LET c == [op |-> "simulate_annual_loss", risk_row |-> risk_row,
                    n_sims |-> n_sims, seed |-> seed]
              out == simulate_annual_loss(risk_row, n_sims, default_rng(seed, e))
              r == [kind |-> IF out.err = "" THEN "array" ELSE "raised", out |-> out]
          IN  /\ call' = c
              /\ ret' = r
              /\ Watch(c, r)
    /\ UNCHANGED <<pc, risk_seeds, idx, results, portfolio_total, simulated,
                   watch, losses, prev>>

(* ------------------------- simulate_portfolio ------------------------- *)

\* base_rng.integers(0, 2**31, size): one sub-seed per row
Integers31(size, g) == [i \in 1..size |-> RawSeq(size, g)[i] % SeedSpace]

\* results[key] = value on a dict kept as its items in insertion order
Put(d, key, value) ==
    IF \E i \in 1..Len(d) : d[i].col = key
    THEN [i \in 1..Len(d) |->
             IF d[i].col = key THEN [col |-> key, losses |-> value] ELSE d[i]]
    ELSE Append(d, [col |-> key, losses |-> value])

AddArraysOverwrite(a, b) == b

\* a + b, element by element
AddArrays(a, b) == [i \in 1..Len(a) |-> a[i] + b[i]]

RegisterNeverEmpty(register_df) == FALSE

\* len(register_df) == 0
RegisterIsEmpty(register_df) == Len(register_df) = 0

\* simulate_portfolio is called, by a user or by quantify_register: the
\* empty-register check, the sub-seed table, the empty accumulators
EnterSimulatePortfolio ==
    /\ pc = "idle"
    /\ call = NoCall
    /\ \E register_df \in Registers, n_sims \in TrialCounts, seed \in Seeds :
          LET c == [op |-> "simulate_portfolio", register_df |-> register_df,
                    n_sims |-> n_sims, seed |-> seed]
          IN  /\ call' = c
              /\ IF RegisterIsEmpty(register_df)
                 THEN LET r == [kind |-> "raised",
                                err |-> "ValueError: Risk register is empty"]
                      IN  /\ ret' = r
                          /\ Watch(c, r)
                          /\ pc' = "idle"
                          /\ risk_seeds' = <<>>
                 ELSE /\ ret' = NoReturn
                      /\ UNCHANGED watch_ret
                      /\ pc' = "loop"
                      /\ risk_seeds' =
                            IF seed # None
                            THEN Integers31(Len(register_df), default_rng(seed, 0))
                            ELSE [i \in 1..Len(register_df) |-> None]
              /\ idx' = 0
              /\ results' = <<>>
              /\ portfolio_total' = [i \in 1..n_sims |-> 0]
              /\ simulated' = <<>>
    /\ UNCHANGED <<watch, losses, prev>>

ColumnName_same_key(risk_id) == ByRiskPrefix

\* f"by_risk:{risk_id}"
ColumnName(risk_id) == ByRiskPrefix \o risk_id

RiskSeedAt_first(table, i) == table[1]

\* risk_seeds[idx], on a table held from index 1
RiskSeedAt(table, i) == table[i + 1]

\* one pass of the loop: simulate the row at idx, store it, add it
SimulateRisk ==
    /\ pc = "loop"
    /\ idx < Len(call.register_df)
    /\ \E e \in Entropy :
          LET risk_row == call.register_df[idx + 1]
              risk_id == risk_row.RiskID
              out == simulate_annual_loss(risk_row, call.n_sims,
                         default_rng(RiskSeedAt(risk_seeds, idx), e))
          IN  /\ simulated' = Append(simulated,
                      [row |-> idx, seed |-> RiskSeedAt(risk_seeds, idx),
                       out |-> out])
              /\ IF out.err # ""
                 THEN LET r == [kind |-> "raised", err |-> out.err]
                      IN  /\ ret' = r
                          /\ Watch(call, r)
                          /\ pc' = "idle"
                          /\ UNCHANGED <<idx, results, portfolio_total>>
                 ELSE /\ results' = Put(results, ColumnName(risk_id), out.losses)
                      /\ portfolio_total' = AddArrays(portfolio_total, out.losses)
                      /\ idx' = idx + 1
                      /\ UNCHANGED <<pc, ret, watch_ret>>
    /\ UNCHANGED <<call, risk_seeds, watch, losses, prev>>

\* col.startswith(prefix)
StartsWith(col, prefix) ==
    /\ Len(col) >= Len(prefix)
    /\ SubSeq(col, 1, Len(prefix)) = prefix

\* s.replace(old, ""): every occurrence of old is taken out, left to right
RECURSIVE Replace(_, _)
Replace(s, old) ==
    IF Len(s) < Len(old) THEN s
    ELSE IF StartsWith(s, old)
         THEN Replace(SubSeq(s, Len(old) + 1, Len(s)), old)
         ELSE <<Head(s)>> \o Replace(Tail(s), old)

\* the columns of the frame that carry a risk
RiskColumns(by_risk) ==
    SelectSeq(by_risk, LAMBDA c : StartsWith(c.col, ByRiskPrefix))

\* quantified_df["RiskID"] == risk_id
Mask(df, risk_id) == { k \in 1..Len(df) : df[k].RiskID = risk_id }

\* a row no metric was assigned to: its metric cells are NaN
NaN == [n |-> 0, d |-> 0]

NoMetrics ==
    [SimMean |-> NaN, SimMedian |-> NaN, SimP90 |-> NaN, SimP95 |-> NaN,
     SimP99 |-> NaN, SimVaR95 |-> NaN, SimVaR99 |-> NaN, SimTVaR95 |-> NaN,
     SimTVaR99 |-> NaN]

PORTFOLIO_TOTAL ==
    <<"P", "O", "R", "T", "F", "O", "L", "I", "O", "_", "T", "O", "T", "A", "L">>

\* the portfolio total row both quantify_register functions end with
PortfolioRow(portfolio_losses) ==
    [RiskID |-> PORTFOLIO_TOTAL, Category |-> "Portfolio",
     metrics |-> SimMetrics(portfolio_losses)]

\* io.quantify_register, the loop over the risk columns: a column whose
\* risk_id matches no row is warned about, the others write their metrics
\* into the rows of the mask
RECURSIVE QuantifyColumns(_, _, _)
QuantifyColumns(quantified_df, risk_columns, warned) ==
    IF risk_columns = <<>>
    THEN [df |-> quantified_df, warnings |-> warned]
    ELSE LET col == Head(risk_columns)
             risk_id == Replace(col.col, ByRiskPrefix)
             mask == Mask(quantified_df, risk_id)
         IN  IF mask = {}
             THEN QuantifyColumns(quantified_df, Tail(risk_columns),
                                  Append(warned, risk_id))
             ELSE QuantifyColumns(
                      [k \in 1..Len(quantified_df) |->
                          IF k \in mask
                          THEN [quantified_df[k] EXCEPT
                                    !.metrics = SimMetrics(col.losses)]
                          ELSE quantified_df[k]],
                      Tail(risk_columns), warned)

Copy_same_frame(frame) == frame

\* DataFrame.copy(): another frame with the same rows
Copy(frame) == [id |-> frame.id + 1, rows |-> frame.rows]

\* io.quantify_register after the simulation: the copy of the register, the
\* metrics of the risk columns written into it, then the portfolio row; df is
\* the caller's register as the writes leave it
QuantifiedRecords(register_df, by_risk, portfolio_losses) ==
    LET given == [id |-> 0, rows |-> register_df]
        quantified_df == Copy(given)
        unquantified == [k \in 1..Len(register_df) |->
                            [RiskID |-> quantified_df.rows[k].RiskID,
                             row |-> quantified_df.rows[k],
                             metrics |-> NoMetrics]]
        done == QuantifyColumns(unquantified, RiskColumns(by_risk), <<>>)
    IN  [records |-> Append(done.df, PortfolioRow(portfolio_losses)),
         warnings |-> done.warnings,
         df |-> IF quantified_df.id = given.id THEN done.df ELSE register_df]

\* risk_register.quantify_register, the loop over the risk columns: a column
\* whose risk_id matches no row is passed over, the others append a row made
\* of the first matching register row and the metrics
RECURSIVE QuantifiedRows(_, _, _)
QuantifiedRows(register_df, risk_columns, quantified_rows) ==
    IF risk_columns = <<>>
    THEN quantified_rows
    ELSE LET col == Head(risk_columns)
             risk_id == Replace(col.col, ByRiskPrefix)
             risk_row == SelectSeq(register_df, LAMBDA r : r.RiskID = risk_id)
         IN  IF Len(risk_row) = 0
             THEN QuantifiedRows(register_df, Tail(risk_columns), quantified_rows)
             ELSE QuantifiedRows(register_df, Tail(risk_columns),
                      Append(quantified_rows,
                             [RiskID |-> risk_id, row |-> risk_row[1],
                              metrics |-> SimMetrics(col.losses)]))

\* the loop is over: the result frame is built and returned
ReturnPortfolio ==
    /\ pc = "loop"
    /\ idx = Len(call.register_df)
    /\ LET r == [kind |-> "frame", portfolio_loss |-> portfolio_total,
                 by_risk |-> results]
       IN  /\ ret' = r
           /\ Watch(call, r)
    /\ pc' = "idle"
    /\ UNCHANGED <<call, risk_seeds, idx, results, portfolio_total, simulated,
                   watch, losses, prev>>

\* the caller of simulate_portfolio was io.quantify_register: it goes on from
\* the frame to its records (np.percentile of an empty array raises)
QuantifyRegister ==
    /\ pc = "idle"
    /\ call.op = "simulate_portfolio"
    /\ ret.kind = "frame"
    /\ call' = [call EXCEPT
                   !.op = "quantify_register",
                   !.register_df =
                       IF call.n_sims = 0
                       THEN call.register_df
                       ELSE QuantifiedRecords(call.register_df, ret.by_risk,
                                              ret.portfolio_loss).df]
    /\ ret' = IF call.n_sims = 0
              THEN [kind |-> "raised",
                    err |-> "IndexError: index -1 is out of bounds"]
              ELSE [kind |-> "records", portfolio_loss |-> ret.portfolio_loss,
                    by_risk |-> ret.by_risk,
                    records |-> QuantifiedRecords(call.register_df, ret.by_risk,
                                                  ret.portfolio_loss).records,
                    warnings |-> QuantifiedRecords(call.register_df, ret.by_risk,
                                                   ret.portfolio_loss).warnings]
    /\ UNCHANGED <<pc, risk_seeds, idx, results, portfolio_total, simulated,
                   watch, watch_ret, losses, prev>>

\* the caller of simulate_portfolio was risk_register.quantify_register (the
\* register passed validate_register_format: it has its columns and a row):
\* it goes on from the frame to its rows and issues no warning
RiskRegisterQuantifyRegister ==
    /\ pc = "idle"
    /\ call.op = "simulate_portfolio"
    /\ ret.kind = "frame"
    /\ call' = [call EXCEPT !.op = "risk_register.quantify_register"]
    /\ ret' = IF call.n_sims = 0
              THEN [kind |-> "raised",
                    err |-> "IndexError: index -1 is out of bounds"]
              ELSE [kind |-> "records", portfolio_loss |-> ret.portfolio_loss,
                    by_risk |-> ret.by_risk,
                    records |-> Append(QuantifiedRows(call.register_df,
                                           RiskColumns(ret.by_risk), <<>>),
                                       PortfolioRow(ret.portfolio_loss)),
                    warnings |-> <<>>]
    /\ UNCHANGED <<pc, risk_seeds, idx, results, portfolio_total, simulated,
                   watch, watch_ret, losses, prev>>

\* the caller lets go of what the call returned; the locals of the finished
\* call are gone
Release ==
    /\ pc = "idle"
    /\ call # NoCall
    /\ call' = NoCall
    /\ ret' = NoReturn
    /\ risk_seeds' = <<>>
    /\ idx' = 0
    /\ results' = <<>>
    /\ portfolio_total' = <<>>
    /\ simulated' = <<>>
    /\ UNCHANGED <<pc, watch, watch_ret, losses, prev>>

(* --------------------------- metrics calls ---------------------------- *)

\* confidence levels in percent; 0 and 100 are outside (0, 1)
Confidences == {0, 10, 50, 90, 95, 99, 100}

RECURSIVE ArraysOfLen(_, _)
ArraysOfLen(S, k) ==
    IF k = 0 THEN { <<>> }
    ELSE { Append(q, x) : q \in ArraysOfLen(S, k - 1), x \in S }

\* the loss arrays the metrics are called on
LossArrays == UNION { ArraysOfLen(0..MaxLoss, k) : k \in 1..MaxLen }

CallVar ==
    /\ \E confidence \in Confidences :
          /\ call' = [op |-> "var", confidence |-> confidence]
          /\ ret' = var(losses, confidence)
    /\ prev' = IF call.op = "var" THEN [call |-> call, ret |-> ret] ELSE prev
    /\ UNCHANGED <<pc, risk_seeds, idx, results, portfolio_total, simulated,
                   watch, watch_ret, losses>>

CallTvar ==
    /\ \E confidence \in Confidences :
          /\ call' = [op |-> "tvar", confidence |-> confidence]
          /\ ret' = tvar(losses, confidence)
    /\ UNCHANGED <<pc, risk_seeds, idx, results, portfolio_total, simulated,
                   watch, watch_ret, losses, prev>>

CallSummary ==
    /\ call' = [op |-> "summary"]
    /\ ret' = summary(losses)
    /\ UNCHANGED <<pc, risk_seeds, idx, results, portfolio_total, simulated,
                   watch, watch_ret, losses, prev>>

\* the metrics block of quantify_register on one loss array
CallSimMetrics ==
    /\ call' = [op |-> "quantify_metrics"]
    /\ ret' = Value(SimMetrics(losses))
    /\ UNCHANGED <<pc, risk_seeds, idx, results, portfolio_total, simulated,
                   watch, watch_ret, losses, prev>>

(* --------------------------- specifications --------------------------- *)

InitIdle ==
    /\ pc = "idle"
    /\ call = NoCall
    /\ ret = NoReturn
    /\ risk_seeds = <<>>
    /\ idx = 0
    /\ results = <<>>
    /\ portfolio_total = <<>>
    /\ simulated = <<>>
    /\ watch_ret = NoReturn
    /\ prev = [call |-> NoCall, ret |-> NoReturn]

Init ==
    /\ InitIdle
    /\ watch = NoCall
    /\ losses = <<>>

Next ==
    \/ CallSimulateAnnualLoss
    \/ EnterSimulatePortfolio
    \/ SimulateRisk
    \/ ReturnPortfolio
    \/ QuantifyRegister
    \/ RiskRegisterQuantifyRegister
    \/ Release

Spec == Init /\ [][Next]_vars

\* the metrics, called on one loss array
InitMetrics ==
    /\ InitIdle
    /\ watch = NoCall
    /\ losses \in LossArrays

NextMetrics ==
    \/ CallVar
    \/ CallTvar
    \/ CallSummary
    \/ CallSimMetrics

SpecMetrics == InitMetrics /\ [][NextMetrics]_vars

(* ----------------------------- curve calls ---------------------------- *)

\* exceedance probabilities in percent; -5 and 105 are outside [0, 1]
ProbVals == {-5, 0, 5, 50, 100, 105}

\* the probs argument: a list of up to two probabilities, or None
ProbLists == SeqsUpTo(ProbVals, 2) \cup {NoProbs}

PointCounts == (-1)..MaxPoints

\* loss thresholds asked about
Thresholds == 0..(MaxLoss + 1)

CallLecPoints ==
    /\ \E probs \in ProbLists, n_points \in PointCounts :
          /\ probs # NoProbs => n_points = MaxPoints
          /\ call' = [op |-> "lec_points", probs |-> probs, n_points |-> n_points]
          /\ ret' \in lec_points(losses, probs, n_points)
    /\ UNCHANGED <<pc, risk_seeds, idx, results, portfolio_total, simulated,
                   watch, watch_ret, losses, prev>>

CallReturnPeriod ==
    /\ \E loss_threshold \in Thresholds :
          /\ call' = [op |-> "return_period", loss_threshold |-> loss_threshold]
          /\ ret' = return_period(losses, loss_threshold)
    /\ UNCHANGED <<pc, risk_seeds, idx, results, portfolio_total, simulated,
                   watch, watch_ret, losses, prev>>

CallExceedanceProb ==
    /\ \E loss_threshold \in Thresholds :
          /\ call' = [op |-> "exceedance_prob", loss_threshold |-> loss_threshold]
          /\ ret' = exceedance_prob(losses, loss_threshold)
    /\ UNCHANGED <<pc, risk_seeds, idx, results, portfolio_total, simulated,
                   watch, watch_ret, losses, prev>>

NextLec ==
    \/ CallLecPoints
    \/ CallReturnPeriod
    \/ CallExceedanceProb

SpecLec == InitMetrics /\ [][NextLec]_vars

(* ------------------------------ tornado ------------------------------- *)

\* dvar_contrib.get(risk_id, 0.0)
GetContribution(dvar_contrib, risk_id) ==
    IF \E k \in 1..Len(dvar_contrib) : dvar_contrib[k].key = risk_id
    THEN dvar_contrib[CHOOSE k \in 1..Len(dvar_contrib) :
                          dvar_contrib[k].key = risk_id].v
    ELSE Rat(0)

\* risk_row["Category"].iloc[0] if len(risk_row) > 0 else "Unknown"
CategoryOf(register_df, risk_id) ==
    LET risk_row == SelectSeq(register_df, LAMBDA r : r.RiskID = risk_id)
    IN  IF Len(risk_row) > 0 THEN risk_row[1].Category ELSE "Unknown"

\* Series.rank(ascending=False): the average of the places a value shares
Rank(vals, k) ==
    LET greater == Cardinality({ j \in 1..Len(vals) : RatLt(vals[k], vals[j]) })
        equal == Cardinality({ j \in 1..Len(vals) : RatEq(vals[k], vals[j]) })
    IN  [n |-> 2 * greater + equal + 1, d |-> 2]

nlargest_last(vals, n) ==
    { k \in 1..Len(vals) :
         Cardinality({ j \in 1..Len(vals) :
                          \/ RatLt(vals[j], vals[k])
                          \/ RatEq(vals[j], vals[k]) /\ j < k }) < n }

\* df.nlargest(n, column): the rows of the n largest values, the earlier row
\* first among equal values; no row for n <= 0
nlargest(vals, n) ==
    { k \in 1..Len(vals) :
         Cardinality({ j \in 1..Len(vals) :
                          \/ RatLt(vals[k], vals[j])
                          \/ RatEq(vals[j], vals[k]) /\ j < k }) < n }

\* the column mean_loss never increases down the rows
MeanDescending(rows) ==
    \A i \in 1..(Len(rows) - 1) : RatLeq(rows[i + 1].mean_loss, rows[i].mean_loss)

\* df_top.sort_values("mean_loss", ascending=False): rows of equal mean_loss
\* come out in any order
sort_by_mean_loss(rows) ==
    { out \in { [i \in 1..Len(rows) |-> rows[o[i]]] : o \in Orders(1..Len(rows)) } :
          MeanDescending(out) }

\* the outcomes of tornado_data; the dict by_risk_losses is held as its items
tornado_data(register_df, portfolio_losses, by_risk_losses, q, top_n) ==
    LET dvar_contrib == marginal_contribution_to_var(by_risk_losses, portfolio_losses, q)
    IN  IF dvar_contrib.err # ""
        THEN { dvar_contrib }
        ELSE LET risks == SelectSeq(by_risk_losses, LAMBDA item : item.key # portfolio)
                 result_rows == [k \in 1..Len(risks) |->
                                [risk_id |-> risks[k].key,
                                 category |-> CategoryOf(register_df, risks[k].key),
                                 mean_loss |-> Mean(risks[k].losses),
                                 dvar |-> GetContribution(dvar_contrib.v, risks[k].key)]]
                 means == [k \in 1..Len(result_rows) |-> result_rows[k].mean_loss]
                 dvars == [k \in 1..Len(result_rows) |-> result_rows[k].dvar]
                 df == [k \in 1..Len(result_rows) |->
                           [risk_id |-> result_rows[k].risk_id,
                            category |-> result_rows[k].category,
                            mean_loss |-> result_rows[k].mean_loss,
                            dvar |-> result_rows[k].dvar,
                            rank_by_mean |-> Rank(means, k),
                            rank_by_dvar |-> Rank(dvars, k)]]
                 top_by_mean == { df[k].risk_id : k \in nlargest(means, top_n) }
                 top_by_dvar == { df[k].risk_id : k \in nlargest(dvars, top_n) }
                 top_risks == top_by_mean \cup top_by_dvar
                 df_top == SelectSeq(df, LAMBDA row : row.risk_id \in top_risks)
             IN  IF Len(result_rows) = 0
                 THEN { Error("KeyError: 'mean_loss'") }
                 ELSE { Value(out) : out \in sort_by_mean_loss(df_top) }

(* --------------------------- degenerate arrays ------------------------ *)

\* the empty array and the arrays of one trial
InitDegenerate ==
    /\ InitIdle
    /\ watch = NoCall
    /\ losses \in {<<>>} \cup { a \in LossArrays : Len(a) = 1 }

NextDegenerate ==
    \/ CallTvar
    \/ CallSummary
    \/ CallLecPoints

SpecDegenerate == InitDegenerate /\ [][NextDegenerate]_vars

(* -------------------------- contribution calls ------------------------ *)

\* the confidence levels q in percent; 0 is outside (0, 1)
ContribConfidences == {0, 50, 95}

\* the ways the portfolio array splits into the arrays of two risks
RECURSIVE Splits(_)
Splits(a) ==
    IF a = <<>> THEN { <<>> }
    ELSE { <<x>> \o rest : x \in 0..Head(a), rest \in Splits(Tail(a)) }

\* the dicts get_losses_by_risk can return for two risks, and the same
\* without the portfolio key
RiskDicts(portfolio_losses) ==
    UNION { LET items == << [key |-> R1, losses |-> a],
                            [key |-> R2,
                             losses |-> [i \in 1..Len(a) |-> portfolio_losses[i] - a[i]]] >>
            IN  { items,
                  <<[key |-> portfolio, losses |-> portfolio_losses]>> \o items }
            : a \in Splits(portfolio_losses) }

CallMarginalContribution ==
    /\ call = NoCall
    /\ \E q \in ContribConfidences, by_risk_losses \in RiskDicts(losses) :
          /\ call' = [op |-> "marginal_contribution_to_var",
                      by_risk_losses |-> by_risk_losses, q |-> q]
          /\ ret' = marginal_contribution_to_var(by_risk_losses, losses, q)
    /\ UNCHANGED <<pc, risk_seeds, idx, results, portfolio_total, simulated,
                   watch, watch_ret, losses, prev>>

\* the registers tornado_data reads the categories from: RiskID and Category
\* are the columns it reads; the second register has no row for R2
TornadoRegisters ==
    { << [RiskID |-> R1, Category |-> "Cyber"], [RiskID |-> R2, Category |-> "Ops"] >>,
      << [RiskID |-> R1, Category |-> "Cyber"] >> }

CallTornadoData ==
    /\ call = NoCall
    /\ \E register_df \in TornadoRegisters, q \in ContribConfidences,
          by_risk_losses \in RiskDicts(losses), top_n \in 0..MaxTop :
          /\ call' = [op |-> "tornado_data", register_df |-> register_df,
                      by_risk_losses |-> by_risk_losses, q |-> q, top_n |-> top_n]
          /\ ret' \in tornado_data(register_df, losses, by_risk_losses, q, top_n)
    /\ UNCHANGED <<pc, risk_seeds, idx, results, portfolio_total, simulated,
                   watch, watch_ret, losses, prev>>

NextContrib ==
    \/ CallMarginalContribution
    \/ CallTornadoData
    \/ Release

\* the portfolio arrays the contributions are computed for
InitContrib ==
    /\ InitIdle
    /\ watch = NoCall
    /\ losses \in { a \in LossArrays : Len(a) < MaxLen }

SpecContrib == InitContrib /\ [][NextContrib]_vars

\* the seeded calls whose repetition is compared
WatchedCalls ==
    { [op |-> "simulate_annual_loss",
       risk_row |-> Row(R1, <<Poisson, 1, None>>, <<Lognormal, 1, 1, None>>,
                        <<FracDen, 0>>),
       n_sims |-> MaxSims, seed |-> 1],
      [op |-> "simulate_portfolio",
       register_df |->
           << Row(R1, <<Poisson, 1, None>>, <<Lognormal, 1, 1, None>>,
                  <<FracDen, 0>>),
              Row(R2, <<NegBin, 1, 1>>, <<PERT, -2, -1, 2>>, <<FracDen, 1>>) >>,
       n_sims |-> MaxSims, seed |-> 0] }

InitDet ==
    /\ InitIdle
    /\ watch \in WatchedCalls
    /\ losses = <<>>

\* the calls that draw from a generator, repeated and interleaved freely
NextDet ==
    \/ CallSimulateAnnualLoss
    \/ EnterSimulatePortfolio
    \/ SimulateRisk
    \/ ReturnPortfolio
    \/ Release

SpecDet == InitDet /\ [][NextDet]_vars

(* ---------------------------- sampler calls --------------------------- *)

\* min, mode and max of the PERT calls
PertVals == (-1)..3

\* a caller runs sample_severity_pert(min_val, mode, max_val, n_events, rng)
CallSampleSeverityPert ==
    /\ call = NoCall
    /\ \E min_val \in PertVals, mode \in PertVals, max_val \in PertVals,
          n_events \in 0..MaxEvents, g \in Entropy :
          /\ call' = [op |-> "sample_severity_pert", min_val |-> min_val,
                      mode |-> mode, max_val |-> max_val, n_events |-> n_events]
          /\ ret' = sample_severity_pert(min_val, mode, max_val, n_events, g)
    /\ UNCHANGED <<pc, risk_seeds, idx, results, portfolio_total, simulated,
                   watch, watch_ret, losses, prev>>

\* str.upper() on one character
UpperChar(c) ==
    IF \E i \in 1..26 : LowerCase[i] = c
    THEN UpperCase[CHOOSE i \in 1..26 : LowerCase[i] = c]
    ELSE c

\* every way of writing a word in upper- and lower-case letters
CaseVariants(word) ==
    { [i \in 1..Len(word) |-> IF mask[i] THEN UpperChar(word[i]) ELSE word[i]] :
          mask \in [1..Len(word) -> BOOLEAN] }

\* names that are no case variant of a model name
UnknownNames ==
    { <<>>, <<"g", "a", "m", "m", "a">>, <<"p", "o", "i", "s", "o", "n">>,
      Append(Poisson, " "), <<" ">> \o pert, Append(normal, "1") }

\* the model names the dispatchers are called with
ModelNames ==
    CaseVariants(poisson) \cup CaseVariants(negbin) \cup CaseVariants(lognormal)
        \cup CaseVariants(normal) \cup CaseVariants(pert) \cup UnknownNames

\* a caller runs sample_frequency(model, param1, param2, n_sims, rng)
CallSampleFrequency ==
    /\ call = NoCall
    /\ \E model \in ModelNames, param1 \in {0, 1}, param2 \in {None, 1},
          g \in Entropy :
          /\ call' = [op |-> "sample_frequency", model |-> model,
                      param1 |-> param1, param2 |-> param2, n |-> MaxSims, g |-> g]
          /\ ret' = sample_frequency(model, param1, param2, MaxSims, g)
    /\ UNCHANGED <<pc, risk_seeds, idx, results, portfolio_total, simulated,
                   watch, watch_ret, losses, prev>>

\* a caller runs sample_severity(model, param1, param2, param3, n_events, rng)
CallSampleSeverity ==
    /\ call = NoCall
    /\ \E model \in ModelNames, param2 \in {0, 1}, param3 \in {None, 2},
          g \in Entropy :
          /\ call' = [op |-> "sample_severity", model |-> model, param1 |-> 0,
                      param2 |-> param2, param3 |-> param3, n |-> MaxEvents,
                      g |-> g]
          /\ ret' = sample_severity(model, 0, param2, param3, MaxEvents, g)
    /\ UNCHANGED <<pc, risk_seeds, idx, results, portfolio_total, simulated,
                   watch, watch_ret, losses, prev>>

NextSampler ==
    \/ CallSampleSeverityPert
    \/ CallSampleFrequency
    \/ CallSampleSeverity
    \/ Release

SpecSampler == Init /\ [][NextSampler]_vars

(* ------------------------------ workers ------------------------------- *)

\* The program runs the loop of simulate_portfolio in one thread.  This
\* section runs its per-risk simulations as workers, as the specification's
\* concurrency model allows: each worker is the call of simulate_annual_loss
\* the loop makes for one row, the merge is the loop's two merging statements.

\* the loop of simulate_portfolio from row k on, run in register order
RECURSIVE SequentialLoop(_, _, _, _, _)
SequentialLoop(c, table, k, by_risk, total) ==
    IF k = Len(c.register_df)
    THEN [kind |-> "frame", portfolio_loss |-> total, by_risk |-> by_risk]
    ELSE LET risk_row == c.register_df[k + 1]
             out == simulate_annual_loss(risk_row, c.n_sims,
                        default_rng(RiskSeedAt(table, k), 0))
         IN  IF out.err # ""
             THEN [kind |-> "raised", err |-> out.err]
             ELSE SequentialLoop(c, table, k + 1,
                      Put(by_risk, ColumnName(risk_row.RiskID), out.losses),
                      AddArrays(total, out.losses))

\* simulate_portfolio(register_df, n_sims, seed) with a seed, run as the
\* program runs it
SequentialRun(c) ==
    IF RegisterIsEmpty(c.register_df)
    THEN [kind |-> "raised", err |-> "ValueError: Risk register is empty"]
    ELSE SequentialLoop(c, Integers31(Len(c.register_df), default_rng(c.seed, 0)),
                        0, <<>>, [i \in 1..c.n_sims |-> 0])

\* the rows whose worker has completed
Completed == { simulated[k].row : k \in 1..Len(simulated) }

\* the worker of some row completes: it simulated its row from its sub-seed
WorkerCompletes ==
    /\ pc = "loop"
    /\ \E k \in 0..(Len(call.register_df) - 1), e \in Entropy :
          /\ k \notin Completed
          /\ simulated' = Append(simulated,
                [row |-> k, seed |-> RiskSeedAt(risk_seeds, k),
                 out |-> simulate_annual_loss(call.register_df[k + 1], call.n_sims,
                             default_rng(RiskSeedAt(risk_seeds, k), e))])
    /\ UNCHANGED <<pc, call, ret, risk_seeds, idx, results, portfolio_total,
                   watch, watch_ret, losses, prev>>

OutputOf_in_completion_order(done, k) == done[k + 1].out

\* what the worker of row k handed in
OutputOf(done, k) == done[CHOOSE j \in 1..Len(done) : done[j].row = k].out

\* all workers have completed: the output of the row at idx is merged, by
\* the two merging statements of the loop, in register order
MergeRisk ==
    /\ pc = "loop"
    /\ Len(simulated) = Len(call.register_df)
    /\ idx < Len(call.register_df)
    /\ LET risk_id == call.register_df[idx + 1].RiskID
           out == OutputOf(simulated, idx)
       IN  IF out.err # ""
           THEN LET r == [kind |-> "raised", err |-> out.err]
                IN  /\ ret' = r
                    /\ Watch(call, r)
                    /\ pc' = "idle"
                    /\ UNCHANGED <<idx, results, portfolio_total>>
           ELSE /\ results' = Put(results, ColumnName(risk_id), out.losses)
                /\ portfolio_total' = AddArrays(portfolio_total, out.losses)
                /\ idx' = idx + 1
                /\ UNCHANGED <<pc, ret, watch_ret>>
    /\ UNCHANGED <<call, risk_seeds, simulated, watch, losses, prev>>

\* simulate_portfolio with its per-risk simulations run by workers
NextWorkers ==
    \/ EnterSimulatePortfolio
    \/ WorkerCompletes
    \/ MergeRisk
    \/ ReturnPortfolio
    \/ Release

SpecWorkers == Init /\ [][NextWorkers]_vars

(* ------------------------------- errors ------------------------------- *)

\* the errors raised by a raise ValueError(...) statement or, for the last
\* two, by numpy with that class
ValueErrors ==
    { "ValueError: Risk register is empty",
      "ValueError: Unknown frequency model",
      "ValueError: Unknown severity model",
      "ValueError: NegBin requires param2 (p)",
      "ValueError: PERT requires param3 (max)",
      "ValueError: Poisson lambda must be >= 0",
      "ValueError: NegBin r must be > 0",
      "ValueError: NegBin p must be in (0, 1]",
      "ValueError: Lognormal sigma must be > 0",
      "ValueError: Normal sigma must be > 0",
      "ValueError: PERT requires min <= mode <= max",
      "ValueError: ResidualFactor must be in [0, 1]",
      "ValueError: ControlEffectiveness must be in [0, 1]",
      "ValueError: Confidence must be in (0, 1)",
      "ValueError: Probability must be in [0, 1]",
      "ValueError: Number of samples must be non-negative",
      "ValueError: zero-size array to reduction operation" }

\* type(e).__name__ of an error the program raised
ExceptionClass(err) ==
    IF err \in ValueErrors THEN "ValueError"
    ELSE IF err \in { "IndexError: index -1 is out of bounds",
                      "IndexError: index 0 is out of bounds" } THEN "IndexError"
    ELSE IF err \in { "KeyError: 'prob'", "KeyError: 'mean_loss'" } THEN "KeyError"
    ELSE "ZeroDivisionError"

\* a caller keeps the error of simulate_portfolio on an empty register and
\* goes on calling
InitErrors ==
    /\ InitIdle
    /\ watch = [op |-> "simulate_portfolio", register_df |-> <<>>,
                n_sims |-> MaxSims, seed |-> None]
    /\ losses = <<>>

NextErrors ==
    \/ EnterSimulatePortfolio
    \/ SimulateRisk
    \/ ReturnPortfolio
    \/ CallSampleFrequency
    \/ CallSampleSeverity
    \/ Release

SpecErrors == InitErrors /\ [][NextErrors]_vars

(* ------------------------------- claims ------------------------------- *)

IsPortfolioCall ==
    call.op \in {"simulate_portfolio", "quantify_register",
                 "risk_register.quantify_register"}

IsAnnualCall == call.op = "simulate_annual_loss"

\* the call came back with a frame: portfolio_loss and the per-risk columns
HasFrame == ret.kind \in {"frame", "records"}

UniqueIDs(register_df) ==
    \A i, j \in 1..Len(register_df) :
        i # j => register_df[i].RiskID # register_df[j].RiskID

\* the sum over the columns of the dict at trial i
ColumnSum(by_risk, i) == SumSeq([k \in 1..Len(by_risk) |-> by_risk[k].losses[i]])

IsSumOfColumns(total, by_risk) ==
    \A i \in 1..Len(total) : total[i] = ColumnSum(by_risk, i)

\* C1 as stated: for every register with at least one risk, after each pass of
\* the loop and in the frame returned, portfolio_loss[i] is the sum over the
\* per-risk columns at i
C1_SumOfReturnedColumns ==
    /\ pc = "loop" => IsSumOfColumns(portfolio_total, results)
    /\ HasFrame => IsSumOfColumns(ret.portfolio_loss, ret.by_risk)

\* C1 amended: the same, for every register whose RiskIDs are pairwise distinct
C1_SumOfColumnsUniqueIDs ==
    /\ (pc = "loop" /\ UniqueIDs(call.register_df))
          => IsSumOfColumns(portfolio_total, results)
    /\ (HasFrame /\ UniqueIDs(call.register_df))
          => IsSumOfColumns(ret.portfolio_loss, ret.by_risk)

\* a frame of two columns, both non-zero at the same trial
C1_Witness ==
    /\ ret.kind = "frame"
    /\ UniqueIDs(call.register_df)
    /\ Len(ret.by_risk) = 2
    /\ \E i \in 1..call.n_sims :
          /\ ret.by_risk[1].losses[i] > 0
          /\ ret.by_risk[2].losses[i] # 0

\* C2: a seeded call of simulate_portfolio or simulate_annual_loss returns what
\* the first call with the same arguments returned, whatever ran in between
C2_SameSeedSameResult ==
    (pc = "idle" /\ call = watch /\ watch_ret.kind = "kept") => ret = watch_ret.r

\* the watched portfolio call has completed a second time, with losses
C2_Witness ==
    /\ pc = "idle"
    /\ call = watch
    /\ watch_ret.kind = "kept"
    /\ watch_ret.n = 2
    /\ ret.kind = "frame"
    /\ \E i \in 1..call.n_sims : ret.portfolio_loss[i] # 0

\* C3: tvar(losses, c) >= var(losses, c) for every non-empty array and every c
\* in (0,1), and SimTVaR95 >= SimVaR95, SimTVaR99 >= SimVaR99 in the metrics
\* quantify_register computes
C3_TVaRAtLeastVaR ==
    /\ (call.op = "tvar" /\ ret.err = "")
          => RatLeq(var(losses, call.confidence).v, ret.v)
    /\ call.op = "quantify_metrics"
          => /\ RatLeq(ret.v.SimVaR95, ret.v.SimTVaR95)
             /\ RatLeq(ret.v.SimVaR99, ret.v.SimTVaR99)

\* tvar returned a tail mean strictly above the VaR
C3_Witness ==
    /\ call.op = "tvar"
    /\ ret.err = ""
    /\ Len(losses) >= 3
    /\ RatLt(var(losses, call.confidence).v, ret.v)

\* C4: var(losses, c1) <= var(losses, c2) for c1 < c2, and p90 <= p95 <= p99,
\* VaR95 <= VaR99 in every summary and in the metrics of quantify_register
C4_VaRMonotone ==
    /\ (call.op = "var" /\ prev.call.op = "var" /\ ret.err = "" /\ prev.ret.err = "")
          => /\ prev.call.confidence < call.confidence => RatLeq(prev.ret.v, ret.v)
             /\ call.confidence < prev.call.confidence => RatLeq(ret.v, prev.ret.v)
    /\ (call.op = "summary" /\ ret.err = "")
          => /\ RatLeq(ret.v.p90, ret.v.p95)
             /\ RatLeq(ret.v.p95, ret.v.p99)
             /\ RatLeq(ret.v.var_95, ret.v.var_99)
    /\ call.op = "quantify_metrics"
          => /\ RatLeq(ret.v.SimP90, ret.v.SimP95)
             /\ RatLeq(ret.v.SimP95, ret.v.SimP99)
             /\ RatLeq(ret.v.SimVaR95, ret.v.SimVaR99)

\* two var calls on one array, the higher confidence giving the higher value
C4_Witness ==
    /\ call.op = "var"
    /\ prev.call.op = "var"
    /\ ret.err = ""
    /\ prev.ret.err = ""
    /\ prev.call.confidence < call.confidence
    /\ RatLt(prev.ret.v, ret.v)

\* the sampler's requirements on the distribution parameters of a risk
InvalidFrequency(r) ==
    \/ Lower(r.FrequencyModel) = poisson /\ r.FreqParam1 < 0
    \/ Lower(r.FrequencyModel) = negbin
          /\ (r.FreqParam1 <= 0 \/ ~(0 < r.FreqParam2 /\ r.FreqParam2 <= FracDen))

InvalidSeverity(r) ==
    \/ Lower(r.SeverityModel) \in {lognormal, normal} /\ r.SevParam2 <= 0
    \/ Lower(r.SeverityModel) = pert
          /\ ~(r.SevParam1 <= r.SevParam2 /\ r.SevParam2 <= r.SevParam3)

FractionsOutside(r) ==
    \/ r.ResidualFactor < 0 \/ r.ResidualFactor > FracDen
    \/ r.ControlEffectiveness < 0 \/ r.ControlEffectiveness > FracDen

\* the call raised, nothing was drawn and no array came back
RaisedBeforeSampling ==
    /\ ret.kind = "raised"
    /\ ret.out.freq_drawn = 0
    /\ ret.out.sev_drawn = 0
    /\ ret.out.losses = <<>>

\* C5: simulate_annual_loss with ResidualFactor or ControlEffectiveness outside
\* [0,1] raises the validation error before any frequency or severity value is
\* drawn and returns no array
C5_FractionsCheckedBeforeSampling ==
    (IsAnnualCall /\ FractionsOutside(call.risk_row))
        => /\ RaisedBeforeSampling
           /\ ret.out.err \in {"ValueError: ResidualFactor must be in [0, 1]",
                               "ValueError: ControlEffectiveness must be in [0, 1]"}

\* a call with a negative ControlEffectiveness, otherwise valid, has raised
C5_Witness ==
    /\ IsAnnualCall
    /\ call.risk_row.ControlEffectiveness < 0
    /\ call.risk_row.ResidualFactor = FracDen
    /\ ~InvalidFrequency(call.risk_row)
    /\ ~InvalidSeverity(call.risk_row)
    /\ call.n_sims > 0
    /\ ret.kind = "raised"

\* C6 as stated: simulate_annual_loss on a risk with invalid distribution
\* parameters raises before any sampling and never returns a loss array (here
\* for the trial counts n_sims >= 1)
C6_InvalidParametersRaiseBeforeSampling ==
    (/\ IsAnnualCall
     /\ call.n_sims >= 1
     /\ InvalidFrequency(call.risk_row) \/ InvalidSeverity(call.risk_row))
        => RaisedBeforeSampling

\* C7: simulate_portfolio on a register of zero rows raises; no sub-seed is
\* derived and no risk is sampled
C7_EmptyRegisterRaises ==
    (IsPortfolioCall /\ Len(call.register_df) = 0)
        => /\ pc = "idle"
           /\ ret.kind = "raised"
           /\ ret.err = "ValueError: Risk register is empty"
           /\ risk_seeds = <<>>
           /\ simulated = <<>>

\* simulate_portfolio was called with a seed on the empty register
C7_Witness ==
    /\ call.op = "simulate_portfolio"
    /\ call.register_df = <<>>
    /\ call.seed # None
    /\ ret.kind = "raised"

IsZero(a) == \A i \in 1..Len(a) : a[i] = 0

PoissonZero(r) == Lower(r.FrequencyModel) = poisson /\ r.FreqParam1 = 0

\* C8: for a risk with frequency Poisson(0), simulate_annual_loss returns an
\* array of length n of zeros, for every n, seed, severity model and pair of
\* fractions in [0,1] (outside [0,1] the call raises, see C5); a portfolio of
\* such risks only has every column and portfolio_loss zero
C8_ZeroFrequencyZeroLoss ==
    /\ (IsAnnualCall /\ PoissonZero(call.risk_row))
          => /\ ~FractionsOutside(call.risk_row) => ret.kind = "array"
             /\ ret.kind = "array"
                   => /\ Len(ret.out.losses) = call.n_sims
                      /\ IsZero(ret.out.losses)
    /\ (IsPortfolioCall /\ pc = "idle"
        /\ \A k \in 1..Len(call.register_df) : PoissonZero(call.register_df[k]))
          => (Len(call.register_df) > 0 => HasFrame \/ call.n_sims = 0)
    /\ (HasFrame /\ \A k \in 1..Len(call.register_df) : PoissonZero(call.register_df[k]))
          => /\ IsZero(ret.portfolio_loss)
             /\ Len(ret.portfolio_loss) = call.n_sims
             /\ \A k \in 1..Len(ret.by_risk) :
                   /\ IsZero(ret.by_risk[k].losses)
                   /\ Len(ret.by_risk[k].losses) = call.n_sims

\* a Poisson(0) risk with a PERT severity and both fractions at 1/FracDen
\* returned MaxSims zeros
C8_Witness ==
    /\ IsAnnualCall
    /\ PoissonZero(call.risk_row)
    /\ call.n_sims = MaxSims
    /\ call.risk_row.ResidualFactor = 1
    /\ call.risk_row.ControlEffectiveness = 1
    /\ Lower(call.risk_row.SeverityModel) = pert
    /\ ret.kind = "array"
    /\ IsZero(ret.out.losses)

ValidRisk(r) ==
    /\ Lower(r.FrequencyModel) \in {poisson, negbin}
    /\ Lower(r.SeverityModel) \in {lognormal, normal, pert}
    /\ ~InvalidFrequency(r)
    /\ ~InvalidSeverity(r)
    /\ ~FractionsOutside(r)

\* C9 as stated: every element of every array simulate_annual_loss returns,
\* and of portfolio_loss, is >= 0 when the parameters meet the sampler's
\* requirements and the fractions lie in [0,1]
C9_LossesNonNegative ==
    /\ (IsAnnualCall /\ ValidRisk(call.risk_row) /\ ret.kind = "array")
          => \A i \in 1..Len(ret.out.losses) : ret.out.losses[i] >= 0
    /\ (HasFrame /\ \A k \in 1..Len(call.register_df) : ValidRisk(call.register_df[k]))
          => \A i \in 1..Len(ret.portfolio_loss) : ret.portfolio_loss[i] >= 0

\* the standard PERT shape parameters 1 + 4(mode-min)/(max-min) and
\* 1 + 4(max-mode)/(max-min)
StandardAlpha(min_val, mode, max_val) ==
    [n |-> (max_val - min_val) + 4 * (mode - min_val), d |-> max_val - min_val]

StandardBeta(min_val, mode, max_val) ==
    [n |-> (max_val - min_val) + 4 * (max_val - mode), d |-> max_val - min_val]

IsPertCall == call.op = "sample_severity_pert"

\* C10 as stated: for min <= mode <= max, min < max and n_events >= 1 the call
\* returns n_events values in [min, max] drawn with the standard PERT shape
\* parameters; for min = mode = max every value is the constant
C10_PertInRangeStandardShape ==
    /\ (IsPertCall /\ call.min_val <= call.mode /\ call.mode <= call.max_val
        /\ call.min_val < call.max_val /\ call.n_events >= 1)
          => /\ ret.err = ""
             /\ Len(ret.vals) = call.n_events
             /\ \A i \in 1..Len(ret.vals) :
                   call.min_val <= ret.vals[i] /\ ret.vals[i] <= call.max_val
             /\ RatEq(ret.shape.alpha,
                      StandardAlpha(call.min_val, call.mode, call.max_val))
             /\ RatEq(ret.shape.beta,
                      StandardBeta(call.min_val, call.mode, call.max_val))
    /\ (IsPertCall /\ call.min_val = call.mode /\ call.mode = call.max_val)
          => /\ ret.err = ""
             /\ Len(ret.vals) = call.n_events
             /\ \A i \in 1..Len(ret.vals) : ret.vals[i] = call.min_val

UpperCase_lognormal == [i \in 1..Len(lognormal) |-> UpperChar(lognormal[i])]

\* the same word, letter case aside
SameIgnoringCase(a, b) ==
    /\ Len(a) = Len(b)
    /\ \A i \in 1..Len(a) :
          \/ a[i] = b[i]
          \/ \E k \in 1..26 : {a[i], b[i]} = {UpperCase[k], LowerCase[k]}

\* the dispatcher raised the unknown-model error and drew nothing
UnknownModel(msg) ==
    /\ ret.err = msg
    /\ ret.vals = <<>>
    /\ ret.drawn = 0
    /\ ret.g = call.g

\* C11: sample_frequency and sample_severity give, for every case variant of a
\* model name, what the sampler of that name gives; every other name raises
\* the unknown-model error and nothing is drawn
C11_DispatchIgnoresCase ==
    /\ call.op = "sample_frequency"
          => IF SameIgnoringCase(call.model, poisson)
             THEN ret = sample_frequency_poisson(call.param1, call.n, call.g)
             ELSE IF SameIgnoringCase(call.model, negbin)
             THEN call.param2 # None
                     => ret = sample_frequency_negbin(call.param1, call.param2,
                                                      call.n, call.g)
             ELSE UnknownModel("ValueError: Unknown frequency model")
    /\ call.op = "sample_severity"
          => IF SameIgnoringCase(call.model, lognormal)
             THEN ret = sample_severity_lognormal(call.param1, call.param2,
                                                  call.n, call.g)
             ELSE IF SameIgnoringCase(call.model, normal)
             THEN ret = sample_severity_normal(call.param1, call.param2,
                                               call.n, call.g)
             ELSE IF SameIgnoringCase(call.model, pert)
             THEN call.param3 # None
                     => ret = sample_severity_pert(call.param1, call.param2,
                                                   call.param3, call.n, call.g)
             ELSE UnknownModel("ValueError: Unknown severity model")

\* sample_severity was called with the name written lOGNORMAL and drew values
C11_Witness ==
    /\ call.op = "sample_severity"
    /\ call.model = [UpperCase_lognormal EXCEPT ![1] = "l"]
    /\ ret.err = ""
    /\ ret.drawn = MaxEvents

IsLecCall == call.op = "lec_points"

\* lec_points returned a table
LecReturned == IsLecCall /\ ret.err = ""

MinOf(a) == CHOOSE x \in {a[i] : i \in 1..Len(a)} : \A i \in 1..Len(a) : x <= a[i]

MaxOf(a) == CHOOSE x \in {a[i] : i \in 1..Len(a)} : \A i \in 1..Len(a) : a[i] <= x

\* the number of trials whose loss is at least the threshold
TrialsAtOrAbove(a, threshold) ==
    Cardinality({ t \in 1..Len(a) : a[t] * threshold.d >= threshold.n })

\* C12: in the table lec_points returns, in either mode, every prob lies in
\* [0,1], and of two rows the one with the greater loss never has the greater
\* prob
C12_ProbInRangeNonIncreasing ==
    LecReturned
        => /\ \A i \in 1..Len(ret.v) :
                 RatLeq(Rat(0), ret.v[i].prob) /\ RatLeq(ret.v[i].prob, Rat(1))
           /\ \A i, j \in 1..Len(ret.v) :
                 RatLt(ret.v[i].loss, ret.v[j].loss)
                     => RatLeq(ret.v[j].prob, ret.v[i].prob)

\* an evenly spaced curve where a greater loss has a strictly smaller prob
C12_Witness ==
    /\ LecReturned
    /\ call.probs = NoProbs
    /\ call.n_points = MaxPoints
    /\ \E i, j \in 1..Len(ret.v) :
          /\ RatLt(ret.v[i].loss, ret.v[j].loss)
          /\ RatLt(ret.v[j].prob, ret.v[i].prob)
          /\ RatLt(Rat(0), ret.v[j].prob)

\* C13: without probs, on losses that are not all equal and n_points >= 1,
\* lec_points returns n_points rows whose thresholds are the evenly spaced
\* points from min(losses) to max(losses) (the single point min(losses) for
\* n_points = 1), and the prob of every row is the number of trials whose loss
\* is at least the row's threshold, divided by n
C13_EvenlySpacedThresholds ==
    (/\ IsLecCall
     /\ call.probs = NoProbs
     /\ call.n_points >= 1
     /\ MinOf(losses) # MaxOf(losses))
        => /\ ret.err = ""
           /\ Len(ret.v) = call.n_points
           /\ \A k \in 0..(call.n_points - 1) :
                 \E i \in 1..Len(ret.v) :
                    IF call.n_points = 1
                    THEN RatEq(ret.v[i].loss, Rat(MinOf(losses)))
                    ELSE ret.v[i].loss.n * (call.n_points - 1)
                            = ret.v[i].loss.d
                                 * (MinOf(losses) * (call.n_points - 1)
                                    + k * (MaxOf(losses) - MinOf(losses)))
           /\ \A i \in 1..Len(ret.v) :
                 RatEq(ret.v[i].prob,
                       [n |-> TrialsAtOrAbove(losses, ret.v[i].loss),
                        d |-> Len(losses)])

\* a curve of MaxPoints rows with three different probs
C13_Witness ==
    /\ LecReturned
    /\ call.probs = NoProbs
    /\ call.n_points = MaxPoints
    /\ Len(ret.v) = MaxPoints
    /\ \E i, j, k \in 1..Len(ret.v) :
          RatLt(ret.v[i].prob, ret.v[j].prob) /\ RatLt(ret.v[j].prob, ret.v[k].prob)

\* C14: without probs, on losses all equal to v, lec_points returns exactly
\* the rows (prob 1, loss v) and (prob 0, loss v), in that order, for every
\* n_points
C14_ConstantLossesTwoRows ==
    (IsLecCall /\ call.probs = NoProbs /\ MinOf(losses) = MaxOf(losses))
        => /\ ret.err = ""
           /\ ret.v = << [prob |-> Rat(1), loss |-> Rat(losses[1])],
                         [prob |-> Rat(0), loss |-> Rat(losses[1])] >>

\* three equal positive losses and n_points = 0 gave the two rows
C14_Witness ==
    /\ LecReturned
    /\ call.probs = NoProbs
    /\ call.n_points = 0
    /\ Len(losses) >= 3
    /\ losses[1] > 0
    /\ Len(ret.v) = 2

\* C15: for one exceedance probability p in (0,1), the loss of the row of
\* lec_points(losses, probs=[p]) is var(losses, 1 - p); a p outside [0,1]
\* raises
C15_LecLossIsVaR ==
    (IsLecCall /\ call.probs # NoProbs /\ Len(call.probs) = 1)
        => LET p == call.probs[1]
           IN  /\ (0 < p /\ p < 100)
                     => /\ ret.err = ""
                        /\ Len(ret.v) = 1
                        /\ RatEq(ret.v[1].loss, var(losses, 100 - p).v)
               /\ (p < 0 \/ p > 100)
                     => ret.err = "ValueError: Probability must be in [0, 1]"

\* probs = [0.05] on losses that are not all equal gave a loss above the median
C15_Witness ==
    /\ LecReturned
    /\ call.probs = <<5>>
    /\ RatLt(var(losses, 50).v, ret.v[1].loss)

C17_ReturnPeriodIsReciprocal ==
    call.op = "return_period"
        => LET count == TrialsAtOrAbove(losses, Rat(call.loss_threshold))
           IN  /\ count > 0
                     => RatEq(RatMul(ret.v,
                                    exceedance_prob(losses, call.loss_threshold).v),
                              Rat(1))
               /\ count = 0 => ret.v = Infinity
               /\ count = Len(losses) => RatEq(ret.v, Rat(1))

\* a threshold that some but not all losses reach: a return period above 1
C17_Witness ==
    /\ call.op = "return_period"
    /\ ret.v # Infinity
    /\ RatLt(Rat(1), ret.v)
    /\ Len(losses) >= 3

\* io.quantify_register returned its records
Quantified == call.op = "quantify_register" /\ ret.kind = "records"

\* old occurs somewhere in s
Contains(s, old) ==
    \E i \in 1..(Len(s) - Len(old) + 1) : SubSeq(s, i, i + Len(old) - 1) = old

PrefixFreeIDs(register_df) ==
    \A k \in 1..Len(register_df) : ~ Contains(register_df[k].RiskID, ByRiskPrefix)

\* one record per register row in register order, each with the metrics of
\* the array the run simulated for that row, then the portfolio row with the
\* metrics of portfolio_loss; every row simulated once
OneRecordPerRisk ==
    LET n == Len(call.register_df)
    IN  /\ Len(simulated) = n
        /\ \A k \in 1..n : simulated[k].row = k - 1
        /\ Len(ret.records) = n + 1
        /\ \A k \in 1..n :
              /\ ret.records[k].RiskID = call.register_df[k].RiskID
              /\ ret.records[k].row = call.register_df[k]
              /\ ret.records[k].metrics = SimMetrics(simulated[k].out.losses)
        /\ ret.records[n + 1].RiskID = PORTFOLIO_TOTAL
        /\ ret.records[n + 1].Category = "Portfolio"
        /\ ret.records[n + 1].metrics = SimMetrics(ret.portfolio_loss)

\* C18 as stated: for a register with unique RiskIDs, quantify_register runs
\* the simulation once and returns one record per register risk in register
\* order, then the PORTFOLIO_TOTAL record of Category Portfolio; each
\* record's metrics come from that run's array for that risk, the last
\* record's from portfolio_loss
C18_OneRecordPerUniqueRisk ==
    (Quantified /\ UniqueIDs(call.register_df)) => OneRecordPerRisk

\* what does hold: the same, for a register whose RiskIDs are unique and do
\* not contain the text "by_risk:"
C18_OneRecordPerPrefixFreeRisk ==
    (Quantified /\ UniqueIDs(call.register_df) /\ PrefixFreeIDs(call.register_df))
        => OneRecordPerRisk

\* two risks R1 and R2 quantified, with different metrics
C18_Witness ==
    /\ Quantified
    /\ Len(call.register_df) = 2
    /\ UniqueIDs(call.register_df)
    /\ PrefixFreeIDs(call.register_df)
    /\ ret.records[1].metrics # ret.records[2].metrics
    /\ ret.records[1].metrics # NoMetrics
    /\ ret.records[2].metrics # NoMetrics

\* either quantify_register came back from a run of at least one trial
QuantifyCameBack ==
    /\ call.op \in {"quantify_register", "risk_register.quantify_register"}
    /\ call.n_sims > 0

\* the risk ids of the per-risk columns no register row carries
UnmatchedRisks ==
    { Replace(ret.by_risk[k].col, ByRiskPrefix) : k \in 1..Len(ret.by_risk) }
        \ { call.register_df[j].RiskID : j \in 1..Len(call.register_df) }

\* the register rows some per-risk column is matched to
MatchedRows ==
    { j \in 1..Len(call.register_df) :
         \E k \in 1..Len(ret.by_risk) :
            Replace(ret.by_risk[k].col, ByRiskPrefix) = call.register_df[j].RiskID }

\* C19: when a per-risk column of the simulation output matches no RiskID of
\* the register, quantify_register does not raise, reports a warning for
\* that risk, and still returns the records of the other risks and the
\* portfolio total
C19_UnmatchedRiskWarned ==
    QuantifyCameBack
        => /\ ret.kind = "records"
           /\ \A risk_id \in UnmatchedRisks :
                 \E w \in 1..Len(ret.warnings) : ret.warnings[w] = risk_id
           /\ \A j \in MatchedRows :
                 \E k \in 1..Len(ret.records) :
                    /\ ret.records[k].RiskID = call.register_df[j].RiskID
                    /\ ret.records[k].metrics # NoMetrics
           /\ ret.records[Len(ret.records)].RiskID = PORTFOLIO_TOTAL

\* io.quantify_register warned about a column without a row and returned the
\* record of another risk
C19_Witness ==
    /\ call.op = "quantify_register"
    /\ ret.kind = "records"
    /\ Len(ret.warnings) = 1
    /\ ret.warnings[1] \in UnmatchedRisks
    /\ MatchedRows # {}
    /\ Len(ret.records) = 3

IsContribCall == call.op = "marginal_contribution_to_var" /\ ret.err = ""

\* the risks of the dict passed in: its keys other than 'portfolio'
RiskItems == SelectSeq(call.by_risk_losses, LAMBDA item : item.key # portfolio)

\* the trials whose portfolio loss is at or above the portfolio VaR
TailTrials ==
    { i \in 1..Len(losses) : RatLeq(Percentile(losses, call.q), Rat(losses[i])) }

SumOver(a, S) == SumSeq([i \in 1..Len(a) |-> IF i \in S THEN a[i] ELSE 0])

\* the mean of a over the tail trials
TailMean(a) == [n |-> SumOver(a, TailTrials), d |-> Cardinality(TailTrials)]

\* one entry per risk of the dict, in its order, and none for 'portfolio'
EntryPerRisk ==
    /\ Len(ret.v) = Len(RiskItems)
    /\ \A k \in 1..Len(ret.v) :
          /\ ret.v[k].key = RiskItems[k].key
          /\ ret.v[k].key # portfolio

\* C20 as stated: every risk whose loss array has non-zero variance gets the
\* mean of its losses over exactly the trials where portfolio loss >=
\* var(portfolio_losses, q); a risk whose loss array has zero variance gets
\* 0; the 'portfolio' key never gets an entry
C20_TailMeanPerVaryingRisk ==
    IsContribCall
        => /\ EntryPerRisk
           /\ \A k \in 1..Len(ret.v) :
                 IF StdPositive(RiskItems[k].losses)
                 THEN RatEq(ret.v[k].v, TailMean(RiskItems[k].losses))
                 ELSE ret.v[k].v = Rat(0)

\* C20 amended: the same when some trial's portfolio loss is below the
\* portfolio VaR; when every trial is in the tail every risk gets 0
C20_TailMeanUnlessAllInTail ==
    IsContribCall
        => /\ EntryPerRisk
           /\ \A k \in 1..Len(ret.v) :
                 IF /\ StdPositive(RiskItems[k].losses)
                    /\ TailTrials # 1..Len(losses)
                 THEN RatEq(ret.v[k].v, TailMean(RiskItems[k].losses))
                 ELSE ret.v[k].v = Rat(0)

\* a dict with the 'portfolio' key, two tail trials out of three or more, a
\* varying risk with a non-zero entry and a constant risk with entry 0
C20_Witness ==
    /\ IsContribCall
    /\ Len(call.by_risk_losses) = 3
    /\ Cardinality(TailTrials) = 2
    /\ Len(losses) >= 3
    /\ StdPositive(RiskItems[1].losses)
    /\ ret.v[1].v.n > 0
    /\ ~ StdPositive(RiskItems[2].losses)
    /\ RiskItems[2].losses[1] > 0

TornadoReturned == call.op = "tornado_data" /\ ret.err = ""

\* the risks of the dict tornado_data was called on
TornadoRisks == SelectSeq(call.by_risk_losses, LAMBDA item : item.key # portfolio)

\* the dVaR of a risk, from the tail trials
DVaROf(item) ==
    IF StdPositive(item.losses) /\ TailTrials # 1..Len(losses)
    THEN TailMean(item.losses)
    ELSE Rat(0)

\* T holds n risks (all of them when there are fewer) and no risk outside T
\* has a greater value than a risk inside
IsTopSet(T, n, val(_)) ==
    LET all == 1..Len(TornadoRisks)
    IN  /\ T \subseteq all
        /\ Cardinality(T) = IF n < Len(TornadoRisks) THEN n ELSE Len(TornadoRisks)
        /\ \A k \in T, j \in all \ T : RatLeq(val(TornadoRisks[j]), val(TornadoRisks[k]))

MeanOf(item) == Mean(item.losses)

MinInt(a, b) == IF a < b THEN a ELSE b

\* C21: tornado_data returns exactly the risks among the top_n by mean loss
\* or among the top_n by dVaR, each once, between min(top_n, R) and
\* min(2 * top_n, R) rows for R risks, ordered by mean loss descending
C21_TornadoIsUnionOfTops ==
    TornadoReturned
        => LET R == Len(TornadoRisks)
               returned == { k \in 1..R :
                               \E i \in 1..Len(ret.v) : ret.v[i].risk_id = TornadoRisks[k].key }
           IN  /\ \E A, B \in SUBSET (1..R) :
                     /\ IsTopSet(A, call.top_n, MeanOf)
                     /\ IsTopSet(B, call.top_n, DVaROf)
                     /\ returned = A \cup B
               /\ Len(ret.v) = Cardinality(returned)
               /\ \A i \in 1..Len(ret.v) :
                     \E k \in 1..R :
                        /\ ret.v[i].risk_id = TornadoRisks[k].key
                        /\ RatEq(ret.v[i].mean_loss, MeanOf(TornadoRisks[k]))
                        /\ RatEq(ret.v[i].dvar, DVaROf(TornadoRisks[k]))
               /\ MinInt(call.top_n, R) <= Len(ret.v)
               /\ Len(ret.v) <= MinInt(2 * call.top_n, R)
               /\ \A i \in 1..(Len(ret.v) - 1) :
                     RatLeq(ret.v[i + 1].mean_loss, ret.v[i].mean_loss)

\* top_n = 1 and two rows: the risk of the greater mean loss, then the risk
\* of the greater dVaR
C21_Witness ==
    /\ TornadoReturned
    /\ call.top_n = 1
    /\ Len(ret.v) = 2
    /\ RatLt(ret.v[2].mean_loss, ret.v[1].mean_loss)
    /\ RatLt(ret.v[1].dvar, ret.v[2].dvar)

\* C22: simulate_portfolio and quantify_register never change the register
\* they are given: from the step that enters the call to the step that lets
\* go of it, whether it returned or raised, no step changes a field of a row
\* or the order of the rows
C22_RegisterNeverChanged ==
    [][(IsPortfolioCall /\ call'.op # "none")
          => call'.register_df = call.register_df]_vars

\* io.quantify_register returned records into which metrics were written,
\* and the register it was given still has its rows
C22_Witness ==
    /\ Quantified
    /\ Len(call.register_df) = 2
    /\ \A k \in 1..Len(call.register_df) :
          /\ ret.records[k].metrics # NoMetrics
          /\ ret.records[k].row = call.register_df[k]
          /\ call.register_df[k] \in RegisterRows

\* a call of tvar, summary or lec_points with arguments that are valid for a
\* loss array with values
DegenerateCall ==
    \/ call.op = "tvar" /\ 0 < call.confidence /\ call.confidence < 100
    \/ call.op = "summary"
    \/ /\ call.op = "lec_points"
       /\ IF call.probs = NoProbs
          THEN call.n_points >= 1
          ELSE /\ Len(call.probs) >= 1
               /\ \A i \in 1..Len(call.probs) :
                     0 <= call.probs[i] /\ call.probs[i] <= 100

\* C23: tvar, summary and lec_points called on an empty loss array return a
\* fallback value and do not raise
C23_EmptyArrayNeverRaises ==
    (losses = <<>> /\ DegenerateCall) => ret.err = ""

\* the same calls on an array of one trial: summary returned, and lec_points
\* returned its two-point curve
C23_Witness ==
    /\ Len(losses) = 1
    /\ call.op = "lec_points"
    /\ DegenerateCall
    /\ call.probs = NoProbs
    /\ ret.err = ""
    /\ Len(ret.v) = 2

\* the cause of an error, as its message names it
CauseOf(err) ==
    IF err = "ValueError: Risk register is empty" THEN "empty register"
    ELSE IF err \in { "ValueError: Unknown frequency model",
                      "ValueError: Unknown severity model" }
    THEN "unknown distribution name"
    ELSE "parameter validation"

\* the caller holds the empty-register error and the error of a sampler
TwoErrorsHeld ==
    /\ watch_ret.kind = "kept"
    /\ call.op \in {"sample_frequency", "sample_severity"}
    /\ ret.err # ""

\* C24: the empty-register error, the unknown-distribution-name error and the
\* parameter-validation error are of distinct kinds: two errors of different
\* causes never have the same exception class
C24_ErrorKindsTellCauses ==
    TwoErrorsHeld
        => (CauseOf(watch_ret.r.err) # CauseOf(ret.err)
               => ExceptionClass(watch_ret.r.err) # ExceptionClass(ret.err))

\* the caller holds the empty-register error and an unknown-name error
C24_Witness ==
    /\ TwoErrorsHeld
    /\ CauseOf(watch_ret.r.err) = "empty register"
    /\ CauseOf(ret.err) = "unknown distribution name"

\* a simulate_annual_loss call with a seed that returned its array
SeededAnnualReturned ==
    /\ IsAnnualCall
    /\ call.seed # None
    /\ ret.kind = "array"

\* the event counts of the trials of the call
EventCounts ==
    sample_frequency(call.risk_row.FrequencyModel, call.risk_row.FreqParam1,
                     call.risk_row.FreqParam2, call.n_sims,
                     default_rng(call.seed, 0))

\* the severities drawn for trial i, k_i of them, from the generator as the
\* trials before i left it
RECURSIVE SeveritiesOfTrial(_)
SeveritiesOfTrial(i) ==
    LET g == IF i = 1 THEN EventCounts.g ELSE SeveritiesOfTrial(i - 1).g
    IN  IF EventCounts.vals[i] = 0
        THEN Drawn(<<>>, g, 0)
        ELSE sample_severity(call.risk_row.SeverityModel, call.risk_row.SevParam1,
                             call.risk_row.SevParam2, call.risk_row.SevParam3,
                             EventCounts.vals[i], g)

\* every trial's loss is residual_factor * (1 - control_effectiveness) * (sum
\* of its k_i severities); a trial of no event is 0 and draws nothing
ScaledSeveritySums ==
    SeededAnnualReturned =>
        /\ \A i \in 1..call.n_sims :
              /\ Len(SeveritiesOfTrial(i).vals) = EventCounts.vals[i]
              /\ ret.out.losses[i] =
                     call.risk_row.ResidualFactor
                        * (FracDen - call.risk_row.ControlEffectiveness)
                        * SumSeq(SeveritiesOfTrial(i).vals)
              /\ EventCounts.vals[i] = 0 => ret.out.losses[i] = 0
        /\ ret.out.sev_drawn =
              SumSeq([i \in 1..call.n_sims |->
                        IF EventCounts.vals[i] = 0 THEN 0
                        ELSE SeveritiesOfTrial(i).drawn])

\* the same call on the risk with a ResidualFactor rf and a
\* ControlEffectiveness ce
WithFractions(rf, ce) ==
    simulate_annual_loss([call.risk_row EXCEPT !.ResidualFactor = rf,
                                               !.ControlEffectiveness = ce],
                         call.n_sims, default_rng(call.seed, 0))

\* the pairs of fractions in [0,1] with ResidualFactor no higher and
\* ControlEffectiveness no lower than those of the call
StrongerControls ==
    { f \in (0..FracDen) \X (0..FracDen) :
        /\ f[1] <= call.risk_row.ResidualFactor
        /\ f[2] >= call.risk_row.ControlEffectiveness }

\* C25: every trial's loss of simulate_annual_loss is residual_factor *
\* (1 - control_effectiveness) * (sum of the trial's k_i severities), 0 without
\* a severity draw when k_i = 0; and with the same seed, lowering
\* ResidualFactor or raising ControlEffectiveness never increases a trial's loss
C25_ScaledSumNeverIncreases ==
    /\ ScaledSeveritySums
    /\ SeededAnnualReturned =>
          \A f \in StrongerControls : \A i \in 1..call.n_sims :
              WithFractions(f[1], f[2]).losses[i] <= ret.out.losses[i]

\* what holds of C25: the scaled sum, and stronger controls never move a
\* trial's loss away from 0
C25_ScaledSumNeverFartherFromZero ==
    /\ ScaledSeveritySums
    /\ SeededAnnualReturned =>
          \A f \in StrongerControls : \A i \in 1..call.n_sims :
              LET lower == WithFractions(f[1], f[2]).losses[i]
              IN  \/ 0 <= lower /\ lower <= ret.out.losses[i]
                  \/ ret.out.losses[i] <= lower /\ lower <= 0

\* a trial with a negative loss under ResidualFactor 1, which 1/2 brings up
C25_Witness ==
    /\ SeededAnnualReturned
    /\ call.risk_row.ResidualFactor = FracDen
    /\ \E i \in 1..call.n_sims :
          /\ ret.out.losses[i] < 0
          /\ EventCounts.vals[i] > 0
          /\ WithFractions(1, call.risk_row.ControlEffectiveness).losses[i]
                 > ret.out.losses[i]

\* simulate_portfolio runs with a base seed
SeededPortfolioRun ==
    /\ IsPortfolioCall
    /\ call.seed # None
    /\ Len(risk_seeds) = Len(call.register_df)

\* C26: the sub-seeds simulate_portfolio derives from a base seed are pairwise
\* distinct across the risks of the register, and no two risks of a run are
\* simulated from the same sub-seed
C26_SubSeedsPairwiseDistinct ==
    SeededPortfolioRun =>
        /\ \A i, j \in 1..Len(risk_seeds) :
              i # j => risk_seeds[i] # risk_seeds[j]
        /\ \A i, j \in 1..Len(simulated) :
              i # j => simulated[i].seed # simulated[j].seed

\* two risks of a seeded run were simulated from the same sub-seed
C26_Witness ==
    /\ SeededPortfolioRun
    /\ Len(simulated) = 2
    /\ simulated[1].row # simulated[2].row
    /\ simulated[1].seed = simulated[2].seed
    /\ simulated[2].out.err = ""

\* inside the loop of simulate_portfolio, from its entry to its return
InLoop == IsPortfolioCall /\ pc = "loop"

\* the whole table is there before the first simulation, one entry per row,
\* and the k-th simulation run is that of row k with the k-th sub-seed
SeedTableServesInOrder ==
    InLoop =>
        /\ Len(risk_seeds) = Len(call.register_df)
        /\ call.seed # None =>
              \A k \in 1..Len(risk_seeds) : risk_seeds[k] \in 0..(SeedSpace - 1)
        /\ Len(simulated) <= Len(risk_seeds)
        /\ \A k \in 1..Len(simulated) :
              /\ simulated[k].row = k - 1
              /\ simulated[k].seed = risk_seeds[k]

\* C27: in simulate_portfolio the whole sub-seed table is derived before the
\* first risk simulation starts and is never modified afterwards; the risk at
\* register index k is simulated with exactly the k-th sub-seed, and the risks
\* are simulated in register order
C27_SeedTableFixedAndServedInOrder ==
    /\ []SeedTableServesInOrder
    /\ [][InLoop => risk_seeds' = risk_seeds]_vars

\* a seeded run of two rows with two different sub-seeds, both rows simulated
C27_Witness ==
    /\ InLoop
    /\ call.seed # None
    /\ Len(simulated) = 2
    /\ risk_seeds[1] # risk_seeds[2]
    /\ simulated[2].out.err = ""

\* a seeded portfolio run came back, with its frame or its error
SeededRunCameBack ==
    /\ call.op = "simulate_portfolio"
    /\ call.seed # None
    /\ pc = "idle"
    /\ ret # NoReturn

\* C28: when the per-risk simulations of a seeded portfolio run are executed
\* by workers, each with its own sub-seed, and merged after all have
\* completed, the merged portfolio_loss and per-risk arrays equal those of the
\* sequential run, whatever the order of completion
C28_WorkersGiveSequentialResult ==
    SeededRunCameBack => ret = SequentialRun(call)

\* a run of two rows whose second worker completed first, merged to a frame
\* with two columns and a non-zero total
C28_Witness ==
    /\ SeededRunCameBack
    /\ ret.kind = "frame"
    /\ Len(simulated) = 2
    /\ simulated[1].row = 1
    /\ Len(ret.by_risk) = 2
    /\ \E i \in 1..call.n_sims : ret.portfolio_loss[i] # 0

\* a seeded simulate_portfolio call came back with its frame
SeededFrameCameBack ==
    /\ SeededRunCameBack
    /\ ret.kind = "frame"

\* the array the frame holds for a risk
ArrayOf(by_risk, risk_id) ==
    by_risk[CHOOSE k \in 1..Len(by_risk) : by_risk[k].col = ColumnName(risk_id)].losses

\* the registers of as many rows that differ from the call's in rows other
\* than row j only, and on which the call comes back with a frame too
OthersChanged(j) ==
    { other \in Registers :
        /\ Len(other) = Len(call.register_df)
        /\ other[j] = call.register_df[j]
        /\ SequentialRun([call EXCEPT !.register_df = other]).kind = "frame" }

\* no other row of the register carries the RiskID of row j
OwnRiskID(register_df, j) ==
    \A k \in 1..Len(register_df) :
        k # j => register_df[k].RiskID # register_df[j].RiskID

\* the array of the risk at row j is the same on both registers
SameArrayOf(j, other) ==
    ArrayOf(ret.by_risk, call.register_df[j].RiskID)
        = ArrayOf(SequentialRun([call EXCEPT !.register_df = other]).by_risk,
                  call.register_df[j].RiskID)

\* C29 as stated: with the seed, n_sims and the number of rows fixed, the
\* array simulate_portfolio returns for the risk at index j depends only on
\* that risk's row: changing fields of other risks, the call still returning,
\* leaves it unchanged
C29_ArrayDependsOnOwnRowOnly ==
    SeededFrameCameBack =>
        \A j \in 1..Len(call.register_df) : \A other \in OthersChanged(j) :
            SameArrayOf(j, other)

\* C29: the same for a risk whose RiskID no other row carries, before and
\* after the change
C29_ArrayOfOwnRiskIDDependsOnOwnRowOnly ==
    SeededFrameCameBack =>
        \A j \in 1..Len(call.register_df) : \A other \in OthersChanged(j) :
            (OwnRiskID(call.register_df, j) /\ OwnRiskID(other, j))
                => SameArrayOf(j, other)

\* a frame of two risks with different arrays, and a change of the second
\* row that changes the second risk's array
C29_Witness ==
    /\ SeededFrameCameBack
    /\ Len(call.register_df) = 2
    /\ OwnRiskID(call.register_df, 1)
    /\ ret.by_risk[1].losses # ret.by_risk[2].losses
    /\ \E other \in OthersChanged(1) :
          /\ OwnRiskID(other, 1)
          /\ other[2] # call.register_df[2]
          /\ ArrayOf(SequentialRun([call EXCEPT !.register_df = other]).by_risk,
                     other[2].RiskID) # ret.by_risk[2].losses

\* the sum of the dVaR values of the dict returned
RECURSIVE SumOfContributions(_)
SumOfContributions(entries) ==
    IF entries = <<>> THEN Rat(0)
    ELSE RatAdd(Head(entries).v, SumOfContributions(Tail(entries)))

\* portfolio_losses is the element-wise sum of the per-risk arrays
IsSumOfRisks ==
    \A i \in 1..Len(losses) :
        losses[i] = SumSeq([k \in 1..Len(RiskItems) |-> RiskItems[k].losses[i]])

\* every risk varies and some trial is below the portfolio VaR
AllVaryNotAllInTail ==
    /\ \A k \in 1..Len(RiskItems) : StdPositive(RiskItems[k].losses)
    /\ TailTrials # 1..Len(losses)

\* C30: when portfolio_losses is the element-wise sum of the per-risk arrays,
\* every risk has non-zero variance and not every trial is in the tail, the
\* dVaR values returned by marginal_contribution_to_var(q) sum to
\* tvar(portfolio_losses, q)
C30_ContributionsSumToTvar ==
    (IsContribCall /\ IsSumOfRisks /\ AllVaryNotAllInTail)
        => /\ tvar(losses, call.q).err = ""
           /\ RatEq(SumOfContributions(ret.v), tvar(losses, call.q).v)

\* two varying risks with non-zero entries, a tail of some trials only, and
\* a 'portfolio' key in the dict
C30_Witness ==
    /\ IsContribCall
    /\ IsSumOfRisks
    /\ AllVaryNotAllInTail
    /\ Len(call.by_risk_losses) = 3
    /\ \A k \in 1..Len(ret.v) : RatLt(Rat(0), ret.v[k].v)
    /\ RatEq(SumOfContributions(ret.v), tvar(losses, call.q).v)

====
